---- MODULE Spec2Model ----
(***************************************************************************)
(* A model of go-formist: the validation engine (form/utils.go and the     *)
(* copy in router/router.go), the schema projector (schema package) and    *)
(* the form/page registry with its HTTP handlers (router/router.go).       *)
(*                                                                         *)
(* Go strings are sequences of one-character strings.  Dynamic values      *)
(* (interface{}) are records [t, s, m, d, n]: t is the dynamic type, s the *)
(* characters of a string, m/d the mantissa and the number of decimal      *)
(* places of a number (the number is m / 10^d), n the length of a          *)
(* []interface{}.                                                          *)
(***************************************************************************)
EXTENDS Integers, Sequences, FiniteSets, TLC

\* ------------------------------------------------------------------ bounds
MaxStrLen == 2      \* longest generated string value
MaxRules == 2       \* longest validation list of a generated field
MaxFields == 2      \* most fields in a generated form
MaxRegs == 3        \* most registrations (forms and pages together)
MaxCalls == 4       \* most calls on a form builder and its sub-builders
MaxTables == 1      \* most table sub-builders of a form builder
MaxColumns == 2     \* most columns of a generated table configuration
MaxMembers == 3     \* most members of a generated struct type
MaxMaps == 2        \* most FromStruct calls on one struct type
MaxSetters == 4     \* most configuration calls on one Admin

\* -------------------------------------------------------------- characters
Letters ==
  {"a","b","c","d","e","f","g","h","i","j","k","l","m","n","o","p","q","r",
   "s","t","u","v","w","x","y","z","A","B","C","D","E","F","G","H","I","J",
   "K","L","M","N","O","P","Q","R","S","T","U","V","W","X","Y","Z"}

Digits == {"0","1","2","3","4","5","6","7","8","9"}

DigitVal(c) ==
  CASE c = "0" -> 0 [] c = "1" -> 1 [] c = "2" -> 2 [] c = "3" -> 3
    [] c = "4" -> 4 [] c = "5" -> 5 [] c = "6" -> 6 [] c = "7" -> 7
    [] c = "8" -> 8 [] c = "9" -> 9

\* unicode.IsSpace restricted to ASCII, as strings.TrimSpace uses it
IsSpace(c) == c \in {" ", "\t", "\n", "\r"}

\* the characters generated strings are made of ("e", "x", "p", "_", "i",
\* "n" are left out: strconv.ParseFloat reads them as exponents, hex floats,
\* digit separators, inf and nan)
Alphabet == {"a", "1", "@", ".", " "}

RECURSIVE StringsUpTo(_)
StringsUpTo(n) ==
  IF n = 0 THEN {<<>>}
  ELSE LET shorter == StringsUpTo(n - 1)
       IN shorter \cup {Append(s, c) : s \in {x \in shorter : Len(x) = n - 1},
                                       c \in Alphabet}

\* ------------------------------------------------------------ dynamic values
MkValue(t, s, m, d, n) == [t |-> t, s |-> s, m |-> m, d |-> d, n |-> n]

Nil == MkValue("nil", <<>>, 0, 0, 0)
Str(s) == MkValue("string", s, 0, 0, 0)
List(n) == MkValue("[]interface{}", <<>>, 0, 0, n)
Bool(b) == MkValue("bool", <<>>, IF b THEN 1 ELSE 0, 0, 0)
Map == MkValue("map[string]interface{}", <<>>, 0, 0, 0)
\* a number of Go type t with value m / 10^d
Num(t, m, d) == MkValue(t, <<>>, m, d, 0)

IsString(v) == v.t = "string"

RECURSIVE Pow10(_)
Pow10(d) == IF d = 0 THEN 1 ELSE 10 * Pow10(d - 1)

\* a float64 as a pair: mantissa and decimal places
MkFloat(m, d) == [m |-> m, d |-> d]
FloatLess(a, b) == a.m * Pow10(b.d) < b.m * Pow10(a.d)
\* int(v) of a float64: truncation toward zero
Trunc(f) ==
  IF f.m >= 0 THEN f.m \div Pow10(f.d) ELSE -((-f.m) \div Pow10(f.d))

\* ------------------------------------------------------------------- errors
MkErr(k, m, b) == [k |-> k, m |-> m, b |-> b]
NoBound == MkFloat(0, 0)
NoErr == MkErr("nil", "", NoBound)
IsErr(e) == e # NoErr

\* errors.New(message) / fmt.Errorf("%s", message): the rule's custom message
CustomErr(message) == MkErr("custom", message, NoBound)
\* the kind-specific default text of a failed rule, citing the bound
DefaultErr(kind, bound) == MkErr(kind, "", bound)
\* not a rule failure: wrong dynamic type, failed coercion, bad pattern
TypeErr(k) == MkErr(k, "", NoBound)

\* ------------------------------------------------------------------ strconv
StripSign(s) ==
  IF Len(s) > 0 /\ s[1] \in {"+", "-"} THEN SubSeq(s, 2, Len(s)) ELSE s

IsNegative(s) == Len(s) > 0 /\ s[1] = "-"

RECURSIVE DigitsValue(_)
\* the number a sequence of characters denotes, reading its digits only
DigitsValue(s) ==
  IF Len(s) = 0 THEN 0
  ELSE LET init == SubSeq(s, 1, Len(s) - 1)
           last == s[Len(s)]
       IN IF last \in Digits THEN 10 * DigitsValue(init) + DigitVal(last)
          ELSE DigitsValue(init)

\* strconv.Atoi: optional sign, then one or more decimal digits
AtoiOk(s) ==
  LET b == StripSign(s)
  IN Len(b) > 0 /\ \A i \in 1..Len(b) : b[i] \in Digits

Atoi(s) == IF IsNegative(s) THEN -DigitsValue(StripSign(s))
           ELSE DigitsValue(StripSign(s))

\* strconv.ParseFloat(s, 64) on decimal notation: optional sign, digits with
\* at most one point, at least one digit
ParseFloatOk(s) ==
  LET b == StripSign(s)
  IN /\ \A i \in 1..Len(b) : b[i] \in Digits \cup {"."}
     /\ Cardinality({i \in 1..Len(b) : b[i] = "."}) <= 1
     /\ \E i \in 1..Len(b) : b[i] \in Digits

ParseFloat(s) ==
  LET b == StripSign(s)
      points == {i \in 1..Len(b) : b[i] = "."}
      decimals == IF points = {} THEN 0
                  ELSE Len(b) - (CHOOSE i \in points : TRUE)
      mant == DigitsValue(b)
  IN MkFloat(IF IsNegative(s) THEN -mant ELSE mant, decimals)

\* ------------------------------------------------------------------ coercion
\* the result of a conversion: the error, and the number when err = NoErr
MkConv(err, f) == [err |-> err, f |-> f]

\* toFloat64
toFloat64(value) ==
  IF value.t \in {"float64", "float32", "int", "int32", "int64"}
    THEN MkConv(NoErr, MkFloat(value.m, value.d))
  ELSE IF value.t = "string"
    THEN IF ParseFloatOk(value.s) THEN MkConv(NoErr, ParseFloat(value.s))
         ELSE MkConv(TypeErr("strconv.ParseFloat"), NoBound)
  ELSE MkConv(TypeErr("notNumber"), NoBound)

\* toInt
toInt(value) ==
  IF value.t \in {"int", "int32", "int64"}
    THEN MkConv(NoErr, MkFloat(value.m, 0))
  ELSE IF value.t \in {"float64", "float32"}
    THEN MkConv(NoErr, MkFloat(Trunc(MkFloat(value.m, value.d)), 0))
  ELSE IF value.t = "string"
    THEN IF AtoiOk(value.s) THEN MkConv(NoErr, MkFloat(Atoi(value.s), 0))
         ELSE MkConv(TypeErr("strconv.Atoi"), NoBound)
  ELSE MkConv(TypeErr("notInteger"), NoBound)

\* isEmpty (form/utils.go and router/router.go hold the same function)
isEmpty(value) ==
  IF value.t = "nil" THEN TRUE
  ELSE IF value.t = "string"
    THEN \A i \in 1..Len(value.s) : IsSpace(value.s[i])
  ELSE IF value.t = "[]interface{}" THEN value.n = 0
  ELSE FALSE

\* ------------------------------------------------------------------- regexp
\* the email expression of validateEmail:
\*   ^[a-zA-Z0-9._%+-]+@[a-zA-Z0-9.-]+\.[a-zA-Z]{2,}$
EmailLocalChars == Letters \cup Digits \cup {".", "_", "%", "+", "-"}
EmailDomainChars == Letters \cup Digits \cup {".", "-"}

emailRegexMatch(s) ==
  \E at \in 1..Len(s) : \E dot \in 1..Len(s) :
    /\ s[at] = "@"
    /\ s[dot] = "."
    /\ at > 1
    /\ \A i \in 1..(at - 1) : s[i] \in EmailLocalChars
    /\ dot > at + 1
    /\ \A i \in (at + 1)..(dot - 1) : s[i] \in EmailDomainChars
    /\ Len(s) - dot >= 2
    /\ \A i \in (dot + 1)..Len(s) : s[i] \in Letters

\* strings.Contains(s, c) for a one-character c
Contains(s, c) == \E i \in 1..Len(s) : s[i] = c

\* The pattern strings the model compiles: `^\d+$`, the unbalanced "(", and
\* every string of Alphabet, whose characters are literals except the
\* wildcard ".".
DigitsPattern == <<"^", "\\", "d", "+", "$">>
MalformedPatterns == {<<"(">>}

\* regexp.Compile succeeds
regexpCompileOk(p) == p \notin MalformedPatterns

\* regex.MatchString(s) of the compiled p (unanchored unless p anchors)
regexpMatchString(p, s) ==
  IF p = DigitsPattern
    THEN Len(s) > 0 /\ \A i \in 1..Len(s) : s[i] \in Digits
  ELSE \E off \in 0..(Len(s) - Len(p)) :
         \A j \in 1..Len(p) :
           IF p[j] = "." THEN s[off + j] # "\n" ELSE s[off + j] = p[j]

\* --------------------------------------------------------- types.* records
\* types.ValidationRule
MkRule(type, value, message) ==
  [Type |-> type, Value |-> value, Message |-> message]

\* types.SelectOption
MkSelectOption(value, label) ==
  [Value |-> value, Label |-> label, Disabled |-> FALSE]

\* Go maps with string keys are functions; Put is the assignment m[k] = v
EmptyMap == [k \in {} |-> Nil]
Put(m, k, v) == [x \in DOMAIN m \cup {k} |-> IF x = k THEN v ELSE m[x]]

\* *types.TableConfig; isNil marks the nil pointer
NilTableConfig ==
  [isNil |-> TRUE, Columns |-> <<>>, Pagination |-> FALSE, PageSize |-> 0,
   Sortable |-> FALSE, Filterable |-> FALSE, Selectable |-> FALSE,
   Editable |-> FALSE]

\* types.Field as the literal types.Field{Name:, Type:, Label:, Required:,
\* Validation:} builds it: every other member holds its zero value
MkField(name, type, label, required, validation) ==
  [Name |-> name, Type |-> type, Label |-> label, Required |-> required,
   Placeholder |-> "", DefaultValue |-> Nil, Options |-> <<>>,
   Multiple |-> FALSE, Validation |-> validation, Group |-> "",
   Description |-> "", Disabled |-> FALSE, Config |-> EmptyMap,
   TableConfig |-> NilTableConfig]

\* types.FieldGroup
MkFieldGroup(name, title, fields) ==
  [Name |-> name, Title |-> title, Description |-> "", Fields |-> fields]

\* types.Form; OnPost and OnGet hold "nil" or the name of a handler
MkForm(name, title, fields, onPost, onGet) ==
  [Name |-> name, Title |-> title, Description |-> "", Fields |-> fields,
   Groups |-> <<>>, OnPost |-> onPost, OnGet |-> onGet]

\* types.Page; Handler holds "nil" or the name of a handler
MkPage(name, title, content, handler) ==
  [Name |-> name, Title |-> title, Content |-> content, Handler |-> handler]

FieldTypeText == "text"
FieldTypeEmail == "email"
FieldTypePassword == "password"
FieldTypeNumber == "number"
FieldTypeTextarea == "textarea"
FieldTypeSelect == "select"
FieldTypeRadio == "radio"
FieldTypeCheckbox == "checkbox"
FieldTypeDate == "date"
FieldTypeTime == "time"
FieldTypeFile == "file"
FieldTypeHidden == "hidden"
FieldTypeTable == "table"

\* ------------------------------------------- form/utils.go: the rule engine
validateEmail(value, message) ==
  IF ~IsString(value) THEN TypeErr("notString")
  ELSE IF ~emailRegexMatch(value.s)
    THEN IF message # "" THEN CustomErr(message)
         ELSE DefaultErr("email", NoBound)
  ELSE NoErr

validateMin(value, minValue, message) ==
  LET num == toFloat64(value)
      min == toFloat64(minValue)
  IN IF IsErr(num.err) THEN num.err
     ELSE IF IsErr(min.err) THEN min.err
     ELSE IF FloatLess(num.f, min.f)
       THEN IF message # "" THEN CustomErr(message)
            ELSE DefaultErr("min", min.f)
     ELSE NoErr

\* validateMax rejecting a value equal to the bound
validateMax_atLeast(value, maxValue, message) ==
  LET num == toFloat64(value)
      max == toFloat64(maxValue)
  IN IF IsErr(num.err) THEN num.err
     ELSE IF IsErr(max.err) THEN max.err
     ELSE IF ~FloatLess(num.f, max.f)
       THEN IF message # "" THEN CustomErr(message)
            ELSE DefaultErr("max", max.f)
     ELSE NoErr

validateMax(value, maxValue, message) ==
  LET num == toFloat64(value)
      max == toFloat64(maxValue)
  IN IF IsErr(num.err) THEN num.err
     ELSE IF IsErr(max.err) THEN max.err
     ELSE IF FloatLess(max.f, num.f)
       THEN IF message # "" THEN CustomErr(message)
            ELSE DefaultErr("max", max.f)
     ELSE NoErr

validateMinLength(value, minLength, message) ==
  LET min == toInt(minLength)
  IN IF ~IsString(value) THEN TypeErr("notString")
     ELSE IF IsErr(min.err) THEN min.err
     ELSE IF Len(value.s) < min.f.m
       THEN IF message # "" THEN CustomErr(message)
            ELSE DefaultErr("minLength", min.f)
     ELSE NoErr

validateMaxLength(value, maxLength, message) ==
  LET max == toInt(maxLength)
  IN IF ~IsString(value) THEN TypeErr("notString")
     ELSE IF IsErr(max.err) THEN max.err
     ELSE IF Len(value.s) > max.f.m
       THEN IF message # "" THEN CustomErr(message)
            ELSE DefaultErr("maxLength", max.f)
     ELSE NoErr

\* validatePattern reporting a pattern that does not compile as a mismatch
validatePattern_badAsMismatch(value, pattern, message) ==
  IF ~IsString(value) THEN TypeErr("notString")
  ELSE IF ~IsString(pattern) THEN TypeErr("patternNotString")
  ELSE IF ~regexpCompileOk(pattern.s) \/
          ~regexpMatchString(pattern.s, value.s)
    THEN IF message # "" THEN CustomErr(message)
         ELSE DefaultErr("pattern", NoBound)
  ELSE NoErr

validatePattern(value, pattern, message) ==
  IF ~IsString(value) THEN TypeErr("notString")
  ELSE IF ~IsString(pattern) THEN TypeErr("patternNotString")
  ELSE IF ~regexpCompileOk(pattern.s) THEN TypeErr("regexp.Compile")
  ELSE IF ~regexpMatchString(pattern.s, value.s)
    THEN IF message # "" THEN CustomErr(message)
         ELSE DefaultErr("pattern", NoBound)
  ELSE NoErr

validateRule(value, rule) ==
  CASE rule.Type = "email" -> validateEmail(value, rule.Message)
    [] rule.Type = "min" -> validateMin(value, rule.Value, rule.Message)
    [] rule.Type = "max" -> validateMax(value, rule.Value, rule.Message)
    [] rule.Type = "minLength" ->
         validateMinLength(value, rule.Value, rule.Message)
    [] rule.Type = "maxLength" ->
         validateMaxLength(value, rule.Value, rule.Message)
    [] rule.Type = "pattern" ->
         validatePattern(value, rule.Value, rule.Message)
    [] OTHER -> NoErr

\* The outcome of a validation: the error returned (NoErr for nil) and the
\* indices of the rules that were evaluated, in evaluation order.
MkOutcome(err, ev) == [err |-> err, ev |-> ev]

RECURSIVE applyRules(_, _, _)
\* the loop `for _, rule := range field.Validation` of ValidateField from
\* index i on
applyRules(value, rules, i) ==
  IF i > Len(rules) THEN MkOutcome(NoErr, <<>>)
  ELSE LET err == validateRule(value, rules[i])
       IN IF IsErr(err) THEN MkOutcome(err, <<i>>)
          ELSE LET rest == applyRules(value, rules, i + 1)
               IN MkOutcome(rest.err, <<i>> \o rest.ev)

\* ValidateField with the empty-value shortcut taken before the required test
ValidateField_skipFirst(f, v) ==
  IF isEmpty(v) THEN MkOutcome(NoErr, <<>>)
  ELSE applyRules(v, f.Validation, 1)

Reverse(q) == [i \in 1..Len(q) |-> q[Len(q) + 1 - i]]

\* ValidateField walking the validation list from its last rule to its first
ValidateField_reversed(f, v) ==
  IF f.Required /\ isEmpty(v) THEN MkOutcome(TypeErr("required"), <<>>)
  ELSE IF isEmpty(v) THEN MkOutcome(NoErr, <<>>)
  ELSE LET o == applyRules(v, Reverse(f.Validation), 1)
       IN MkOutcome(o.err,
                    [i \in 1..Len(o.ev) |-> Len(f.Validation) + 1 - o.ev[i]])

ValidateField(field, value) ==
  IF field.Required /\ isEmpty(value) THEN MkOutcome(TypeErr("required"), <<>>)
  ELSE IF isEmpty(value) THEN MkOutcome(NoErr, <<>>)
  ELSE applyRules(value, field.Validation, 1)

\* ---------------------------------------- router/router.go: the rule engine
\* isEmpty without strings.TrimSpace
Router_isEmpty_noTrim(v) ==
  IF v.t = "nil" THEN TRUE
  ELSE IF v.t = "string" THEN Len(v.s) = 0
  ELSE IF v.t = "[]interface{}" THEN v.n = 0
  ELSE FALSE

Router_isEmpty(value) ==
  IF value.t = "nil" THEN TRUE
  ELSE IF value.t = "string"
    THEN \A i \in 1..Len(value.s) : IsSpace(value.s[i])
  ELSE IF value.t = "[]interface{}" THEN value.n = 0
  ELSE FALSE

Router_toFloat64(value) ==
  IF value.t \in {"float64", "float32", "int", "int32", "int64"}
    THEN MkConv(NoErr, MkFloat(value.m, value.d))
  ELSE IF value.t = "string"
    THEN IF ParseFloatOk(value.s) THEN MkConv(NoErr, ParseFloat(value.s))
         ELSE MkConv(TypeErr("strconv.ParseFloat"), NoBound)
  ELSE MkConv(TypeErr("notNumber"), NoBound)

Router_toInt(value) ==
  IF value.t \in {"int", "int32", "int64"}
    THEN MkConv(NoErr, MkFloat(value.m, 0))
  ELSE IF value.t \in {"float64", "float32"}
    THEN MkConv(NoErr, MkFloat(Trunc(MkFloat(value.m, value.d)), 0))
  ELSE IF value.t = "string"
    THEN IF AtoiOk(value.s) THEN MkConv(NoErr, MkFloat(Atoi(value.s), 0))
         ELSE MkConv(TypeErr("strconv.Atoi"), NoBound)
  ELSE MkConv(TypeErr("notInteger"), NoBound)

Router_validateEmail(value, message) ==
  IF ~IsString(value) THEN TypeErr("notString")
  ELSE IF ~Contains(value.s, "@") \/ ~Contains(value.s, ".")
    THEN IF message # "" THEN CustomErr(message)
         ELSE DefaultErr("email", NoBound)
  ELSE NoErr

Router_validateMin(value, minValue, message) ==
  LET num == Router_toFloat64(value)
      min == Router_toFloat64(minValue)
  IN IF IsErr(num.err) THEN num.err
     ELSE IF IsErr(min.err) THEN min.err
     ELSE IF FloatLess(num.f, min.f)
       THEN IF message # "" THEN CustomErr(message)
            ELSE DefaultErr("min", min.f)
     ELSE NoErr

Router_validateMax(value, maxValue, message) ==
  LET num == Router_toFloat64(value)
      max == Router_toFloat64(maxValue)
  IN IF IsErr(num.err) THEN num.err
     ELSE IF IsErr(max.err) THEN max.err
     ELSE IF FloatLess(max.f, num.f)
       THEN IF message # "" THEN CustomErr(message)
            ELSE DefaultErr("max", max.f)
     ELSE NoErr

Router_validateMinLength(value, minLength, message) ==
  LET min == Router_toInt(minLength)
  IN IF ~IsString(value) THEN TypeErr("notString")
     ELSE IF IsErr(min.err) THEN min.err
     ELSE IF Len(value.s) < min.f.m
       THEN IF message # "" THEN CustomErr(message)
            ELSE DefaultErr("minLength", min.f)
     ELSE NoErr

Router_validateMaxLength(value, maxLength, message) ==
  LET max == Router_toInt(maxLength)
  IN IF ~IsString(value) THEN TypeErr("notString")
     ELSE IF IsErr(max.err) THEN max.err
     ELSE IF Len(value.s) > max.f.m
       THEN IF message # "" THEN CustomErr(message)
            ELSE DefaultErr("maxLength", max.f)
     ELSE NoErr

Router_validateRule(value, rule) ==
  CASE rule.Type = "email" -> Router_validateEmail(value, rule.Message)
    [] rule.Type = "min" ->
         Router_validateMin(value, rule.Value, rule.Message)
    [] rule.Type = "max" ->
         Router_validateMax(value, rule.Value, rule.Message)
    [] rule.Type = "minLength" ->
         Router_validateMinLength(value, rule.Value, rule.Message)
    [] rule.Type = "maxLength" ->
         Router_validateMaxLength(value, rule.Value, rule.Message)
    [] OTHER -> NoErr

\* The outcome of validating a payload: the error (NoErr for nil), the label
\* of the field the error message names, and the <<field index, rule index>>
\* pairs of the rules that were evaluated, in evaluation order.
MkFormOutcome(err, label, ev) == [err |-> err, label |-> label, ev |-> ev]

\* the zero value a Go map lookup yields for an absent key
Lookup(data, key) == IF key \in DOMAIN data THEN data[key] ELSE Nil

RECURSIVE Router_applyRules(_, _, _, _)
\* the inner loop `for _, rule := range field.Validation` of
\* validateFormData for field fi, from rule index i on
Router_applyRules(value, rules, fi, i) ==
  IF i > Len(rules) THEN MkOutcome(NoErr, <<>>)
  ELSE LET err == Router_validateRule(value, rules[i])
       IN IF IsErr(err) THEN MkOutcome(err, << <<fi, i>> >>)
          ELSE LET rest == Router_applyRules(value, rules, fi, i + 1)
               IN MkOutcome(rest.err, << <<fi, i>> >> \o rest.ev)

RECURSIVE validateFields(_, _, _)
\* the loop `for _, field := range form.Fields` of validateFormData from
\* field index fi on
validateFields(fields, data, fi) ==
  IF fi > Len(fields) THEN MkFormOutcome(NoErr, "", <<>>)
  ELSE
    LET field == fields[fi]
        exists == field.Name \in DOMAIN data
        value == Lookup(data, field.Name)
    IN IF field.Required /\ (~exists \/ Router_isEmpty(value))
         THEN MkFormOutcome(TypeErr("required"), field.Label, <<>>)
       ELSE IF ~exists \/ Router_isEmpty(value)
         THEN validateFields(fields, data, fi + 1)
       ELSE
         LET mine == Router_applyRules(value, field.Validation, fi, 1)
         IN IF IsErr(mine.err)
              THEN MkFormOutcome(mine.err, field.Label, mine.ev)
            ELSE LET rest == validateFields(fields, data, fi + 1)
                 IN MkFormOutcome(rest.err, rest.label, mine.ev \o rest.ev)

validateFormData(form, data) == validateFields(form.Fields, data, 1)

\* ------------------------------------------------- schema: the projector
\* getOptionValues
getOptionValues(options) == [i \in 1..Len(options) |-> options[i].Value]

\* convertOptionsToEnumOptions
convertOptionsToEnumOptions(options) ==
  [i \in 1..Len(options) |->
     [value |-> options[i].Value, label |-> options[i].Label]]

\* generateTableColumnSchema
generateTableColumnSchema ==
  [type |-> "object",
   properties |-> [key |-> [type |-> "string"], title |-> [type |-> "string"],
                   type |-> [type |-> "string"],
                   sortable |-> [type |-> "boolean"],
                   filterable |-> [type |-> "boolean"],
                   width |-> [type |-> "string"],
                   align |-> [type |-> "string"]]]

\* generateTableSchema with one property per configured column
generateTableSchema_columnKeys(config) ==
  [type |-> "object",
   title |-> "Table",
   properties |->
     [k \in {config.Columns[i].Key : i \in 1..Len(config.Columns)} |->
        [type |-> "string"]]]

\* generateTableSchema (the source's title is the Russian word for table)
generateTableSchema(config) ==
  [type |-> "object",
   title |-> "Table",
   properties |->
     [columns |-> [type |-> "array", items |-> generateTableColumnSchema],
      rows |-> [type |-> "array", items |-> [type |-> "object"]],
      total |-> [type |-> "integer"],
      page |-> [type |-> "integer"],
      limit |-> [type |-> "integer"]]]

\* generateTableUIOptions
generateTableUIOptions(config) ==
  [pagination |-> config.Pagination, pageSize |-> config.PageSize,
   sortable |-> config.Sortable, filterable |-> config.Filterable,
   selectable |-> config.Selectable, editable |-> config.Editable,
   columns |-> config.Columns]

\* the switch on field.Type of generateFieldSchema
fieldTypeSchema(field, base) ==
  CASE field.Type = FieldTypeText ->
         IF field.Placeholder # ""
           THEN Put(Put(base, "type", "string"),
                    "examples", <<field.Placeholder>>)
         ELSE Put(base, "type", "string")
    [] field.Type = FieldTypeEmail ->
         Put(Put(base, "type", "string"), "format", "email")
    [] field.Type = FieldTypePassword ->
         Put(Put(base, "type", "string"), "format", "password")
    [] field.Type = FieldTypeNumber -> Put(base, "type", "number")
    [] field.Type = FieldTypeTextarea -> Put(base, "type", "string")
    [] field.Type = FieldTypeDate ->
         Put(Put(base, "type", "string"), "format", "date")
    [] field.Type = FieldTypeTime ->
         Put(Put(base, "type", "string"), "format", "time")
    [] field.Type = FieldTypeFile ->
         Put(Put(base, "type", "string"), "format", "data-url")
    [] field.Type = FieldTypeCheckbox -> Put(base, "type", "boolean")
    [] field.Type \in {FieldTypeRadio, FieldTypeSelect} ->
         IF field.Multiple
           THEN Put(Put(Put(base, "type", "array"),
                        "items", [type |-> "string",
                                  enum |-> getOptionValues(field.Options)]),
                    "uniqueItems", TRUE)
         ELSE Put(Put(base, "type", "string"),
                  "enum", getOptionValues(field.Options))
    [] field.Type = FieldTypeTable ->
         IF ~field.TableConfig.isNil
           THEN generateTableSchema(field.TableConfig)
         ELSE Put(base, "type", "object")
    [] OTHER -> Put(base, "type", "string")

RECURSIVE ruleKeywords(_, _, _)
\* the loop over field.Validation of generateFieldSchema from index i on
ruleKeywords(schema, rules, i) ==
  IF i > Len(rules) THEN schema
  ELSE
    LET rule == rules[i]
        isFloat == rule.Value.t = "float64"
        num == MkFloat(rule.Value.m, rule.Value.d)
        next ==
          CASE rule.Type = "min" /\ isFloat -> Put(schema, "minimum", num)
            [] rule.Type = "max" /\ isFloat -> Put(schema, "maximum", num)
            [] rule.Type = "minLength" /\ isFloat ->
                 Put(schema, "minLength", Trunc(num))
            [] rule.Type = "maxLength" /\ isFloat ->
                 Put(schema, "maxLength", Trunc(num))
            [] rule.Type = "pattern" /\ IsString(rule.Value) ->
                 Put(schema, "pattern", rule.Value.s)
            [] OTHER -> schema
    IN ruleKeywords(next, rules, i + 1)

\* generateFieldSchema without the default value
generateFieldSchema_noDefault(field) ==
  LET base == [title |-> field.Label, description |-> field.Description]
  IN ruleKeywords(fieldTypeSchema(field, base), field.Validation, 1)

\* generateFieldSchema (its error result is always nil)
generateFieldSchema(field) ==
  LET base == [title |-> field.Label, description |-> field.Description]
      typed == fieldTypeSchema(field, base)
      withDefault == IF field.DefaultValue # Nil
                       THEN Put(typed, "default", field.DefaultValue)
                     ELSE typed
  IN ruleKeywords(withDefault, field.Validation, 1)

\* schema.JSONSchema
MkJSONSchema(title, description, properties, required) ==
  [Schema |-> "https://json-schema.org/draft/2020-12/schema",
   Type |-> "object", Title |-> title, Description |-> description,
   Properties |-> properties, Required |-> required,
   Definitions |-> EmptyMap]

RECURSIVE jsonSchemaFields(_, _, _)
\* the loop over form.Fields of GenerateJSONSchema from index i on
jsonSchemaFields(schema, fields, i) ==
  IF i > Len(fields) THEN schema
  ELSE
    LET field == fields[i]
    IN IF field.Type = FieldTypeHidden
         THEN jsonSchemaFields(schema, fields, i + 1)
       ELSE
         LET props == Put(schema.Properties, field.Name,
                          generateFieldSchema(field))
             req == IF field.Required
                      THEN Append(schema.Required, field.Name)
                    ELSE schema.Required
         IN jsonSchemaFields(
              [schema EXCEPT !.Properties = props, !.Required = req],
              fields, i + 1)

\* GenerateJSONSchema appending to Required before the hidden test
GenerateJSONSchema_requiredFirst(f) ==
  LET schema == jsonSchemaFields(
                  MkJSONSchema(f.Title, f.Description, EmptyMap, <<>>),
                  f.Fields, 1)
      idx == {i \in 1..Len(f.Fields) : f.Fields[i].Required}
      Rank(i) == Cardinality({j \in idx : j <= i})
  IN [schema EXCEPT !.Required =
        [k \in 1..Cardinality(idx) |->
           f.Fields[CHOOSE i \in idx : Rank(i) = k].Name]]

GenerateJSONSchema(form) ==
  jsonSchemaFields(
    MkJSONSchema(form.Title, form.Description, EmptyMap, <<>>),
    form.Fields, 1)

\* generateFieldUISchema up to the merge of field.Config: the widget, the
\* options derived for it, placeholder, disabled and group
fieldUIBeforeConfig(field) ==
  LET widget ==
        CASE field.Type = FieldTypePassword -> [w |-> "password"]
          [] field.Type = FieldTypeTextarea ->
               [w |-> "textarea", o |-> [rows |-> 4]]
          [] field.Type = FieldTypeFile -> [w |-> "file"]
          [] field.Type = FieldTypeCheckbox -> [w |-> "checkbox"]
          [] field.Type = FieldTypeRadio ->
               IF Len(field.Options) > 0
                 THEN [w |-> "radio",
                       o |-> [enumOptions |->
                                convertOptionsToEnumOptions(field.Options)]]
               ELSE [w |-> "radio"]
          [] field.Type = FieldTypeSelect ->
               LET name == IF field.Multiple THEN "checkboxes" ELSE "select"
               IN IF Len(field.Options) > 0
                    THEN [w |-> name,
                          o |-> [enumOptions |->
                                   convertOptionsToEnumOptions(field.Options)]]
                  ELSE [w |-> name]
          [] field.Type = FieldTypeTable ->
               IF ~field.TableConfig.isNil
                 THEN [w |-> "table",
                       o |-> generateTableUIOptions(field.TableConfig)]
               ELSE [w |-> "table"]
          [] field.Type = FieldTypeHidden -> [w |-> "hidden"]
          [] OTHER -> EmptyMap
      s1 == IF "w" \in DOMAIN widget
              THEN Put(EmptyMap, "ui:widget", widget.w) ELSE EmptyMap
      s2 == IF "o" \in DOMAIN widget
              THEN Put(s1, "ui:options", widget.o) ELSE s1
      s3 == IF field.Placeholder # ""
              THEN Put(s2, "ui:placeholder", field.Placeholder) ELSE s2
      s4 == IF field.Disabled THEN Put(s3, "ui:disabled", TRUE) ELSE s3
  IN IF field.Group # "" THEN Put(s4, "ui:group", field.Group) ELSE s4

\* `uiSchema["ui:options"] = field.Config`: the options of the result are
\* the very map the Form's field holds
optionsAreConfig(field) ==
  /\ DOMAIN field.Config # {}
  /\ "ui:options" \notin DOMAIN fieldUIBeforeConfig(field)

\* generateFieldUISchema
generateFieldUISchema(field) ==
  LET s5 == fieldUIBeforeConfig(field)
  IN IF DOMAIN field.Config # {}
       THEN IF "ui:options" \in DOMAIN s5
              THEN Put(s5, "ui:options",
                       [k \in DOMAIN s5["ui:options"] \cup DOMAIN field.Config
                          |-> IF k \in DOMAIN field.Config
                                THEN field.Config[k]
                              ELSE s5["ui:options"][k]])
            ELSE Put(s5, "ui:options", field.Config)
     ELSE s5

\* the first loop of GenerateUISchema: the names of the fields that are not
\* hidden, in Form.Fields order
RECURSIVE uiOrder(_, _)
uiOrder(fields, i) ==
  IF i > Len(fields) THEN <<>>
  ELSE IF fields[i].Type # FieldTypeHidden
    THEN <<fields[i].Name>> \o uiOrder(fields, i + 1)
  ELSE uiOrder(fields, i + 1)

RECURSIVE uiFields(_, _, _)
\* the second loop of GenerateUISchema from index i on
uiFields(uiSchema, fields, i) ==
  IF i > Len(fields) THEN uiSchema
  ELSE LET fieldUI == generateFieldUISchema(fields[i])
       IN IF DOMAIN fieldUI # {}
            THEN uiFields(Put(uiSchema, fields[i].Name, fieldUI),
                          fields, i + 1)
          ELSE uiFields(uiSchema, fields, i + 1)

\* the hint map GenerateUISchema builds for one group
groupUI(group) ==
  Put(Put(Put(EmptyMap, "ui:title", group.Title),
          "ui:description", group.Description),
      "ui:fields", group.Fields)

\* GenerateUISchema without the hidden test in the ordering loop
GenerateUISchema_allFields(f) ==
  LET ordered == Put(EmptyMap, "ui:order",
                     [i \in 1..Len(f.Fields) |-> f.Fields[i].Name])
      withFields == uiFields(ordered, f.Fields, 1)
  IN IF Len(f.Groups) > 0
       THEN Put(withFields, "ui:groups",
                [i \in 1..Len(f.Groups) |-> groupUI(f.Groups[i])])
     ELSE withFields

GenerateUISchema(form) ==
  LET ordered == Put(EmptyMap, "ui:order", uiOrder(form.Fields, 1))
      withFields == uiFields(ordered, form.Fields, 1)
  IN IF Len(form.Groups) > 0
       THEN Put(withFields, "ui:groups",
                [i \in 1..Len(form.Groups) |-> groupUI(form.Groups[i])])
     ELSE withFields

\* ----------------------------------------- router/router.go: the registry
\* RegisterForm keeping the form registered first under a name
RegisterForm_keepFirst(fs, f) ==
  IF f.Name \in DOMAIN fs THEN fs ELSE Put(fs, f.Name, f)

\* Router.RegisterForm: r.forms[form.Name] = form
RegisterForm(fs, f) == Put(fs, f.Name, f)

\* Router.RegisterPage: r.pages[page.Name] = page
RegisterPage(ps, p) == Put(ps, p.Name, p)

\* What a handler did: the status and data of the response it wrote and the
\* steps it took.  A step is <<what, whose>>: a call of the form's OnGet or
\* OnPost or of the page's Handler (whose is the handler), or a call of
\* json.Decode, validateFormData, GenerateJSONSchema or GenerateUISchema.
MkServed(status, respData, steps) ==
  [status |-> status, data |-> respData, steps |-> steps]

\* handleFormsList
handleFormsList(fs) ==
  MkServed(200, [name \in DOMAIN fs |-> fs[name].Title], <<>>)

\* handleFormGet falling back to a registered form when the name is unknown
handleFormGet_fallback(fs, name, getFails) ==
  LET f == IF name \in DOMAIN fs THEN fs[name]
           ELSE fs[CHOOSE n \in DOMAIN fs : TRUE]
      projected == << <<"GenerateJSONSchema", "">>, <<"GenerateUISchema", "">> >>
  IN IF DOMAIN fs = {} THEN MkServed(404, EmptyMap, <<>>)
     ELSE IF f.OnGet # "nil"
       THEN MkServed(IF getFails THEN 500 ELSE 200, EmptyMap,
                     Append(projected, <<"OnGet", f.OnGet>>))
     ELSE MkServed(200, EmptyMap, projected)

\* handleFormGet; getFails: the form's OnGet handler returns an error
handleFormGet(fs, name, getFails) ==
  IF name \notin DOMAIN fs THEN MkServed(404, EmptyMap, <<>>)
  ELSE
    LET f == fs[name]
        response == [Schema |-> GenerateJSONSchema(f),
                     UISchema |-> GenerateUISchema(f)]
        projected == << <<"GenerateJSONSchema", "">>, <<"GenerateUISchema", "">> >>
    IN IF f.OnGet # "nil"
         THEN IF getFails
                THEN MkServed(500, EmptyMap,
                              Append(projected, <<"OnGet", f.OnGet>>))
              ELSE MkServed(200, response,
                            Append(projected, <<"OnGet", f.OnGet>>))
       ELSE MkServed(200, response, projected)

\* handleFormPost calling OnPost without looking at the validation result
handleFormPost_unvalidated(fs, name, body, postFails) ==
  IF name \notin DOMAIN fs THEN MkServed(404, EmptyMap, <<>>)
  ELSE IF fs[name].OnPost = "nil" THEN MkServed(405, EmptyMap, <<>>)
  ELSE IF ~body.ok THEN MkServed(400, EmptyMap, << <<"json.Decode", "">> >>)
  ELSE MkServed(IF postFails THEN 500 ELSE 200, EmptyMap,
                << <<"json.Decode", "">>, <<"validateFormData", "">>,
                   <<"OnPost", fs[name].OnPost>> >>)

\* handleFormPost; postFails: the form's OnPost handler returns an error
handleFormPost(fs, name, body, postFails) ==
  IF name \notin DOMAIN fs THEN MkServed(404, EmptyMap, <<>>)
  ELSE
    LET f == fs[name]
    IN IF f.OnPost = "nil" THEN MkServed(405, EmptyMap, <<>>)
       ELSE IF ~body.ok
         THEN MkServed(400, EmptyMap, << <<"json.Decode", "">> >>)
       ELSE IF validateFormData(f, body.data).err # NoErr
         THEN MkServed(400, EmptyMap,
                       << <<"json.Decode", "">>, <<"validateFormData", "">> >>)
       ELSE MkServed(IF postFails THEN 500 ELSE 200, EmptyMap,
                     << <<"json.Decode", "">>, <<"validateFormData", "">>,
                        <<"OnPost", f.OnPost>> >>)

\* handlePageGet; a page's own Handler writes the response itself
handlePageGet(ps, name) ==
  IF name \notin DOMAIN ps THEN MkServed(404, EmptyMap, <<>>)
  ELSE
    LET page == ps[name]
    IN IF page.Handler # "nil"
         THEN MkServed(0, EmptyMap, << <<"Handler", page.Handler>> >>)
       ELSE MkServed(200, [title |-> page.Title, content |-> page.Content],
                     <<>>)

\* ------------------------------------------------ formist.go: the facade
\* storage.Route as Admin fills it in; Path is the prefix and the name that
\* fmt.Sprintf joins
MkRoute(name, prefix, title, description, type) ==
  [Name |-> name, Path |-> <<prefix, name>>, Title |-> title,
   Description |-> description, Type |-> type]

\* What a registration through Admin did: the registry afterwards, the
\* routes the storage took in, the calls made in order, and the error
\* surfaced to the caller (the methods return *Admin only: always nil).
MkRegistered(registry, saved, steps, err) ==
  [registry |-> registry, saved |-> saved, steps |-> steps, err |-> err]

\* Admin.RegisterForm saving the route first and giving up when that fails
Admin_RegisterForm_saveFirst(fs, st, f, saveFails) ==
  LET route == MkRoute(f.Name, "/admin/forms/", f.Title, f.Description, "form")
  IN IF st # "nil"
       THEN IF saveFails
              THEN MkRegistered(fs, <<>>, <<"storage.SaveRoute">>,
                                TypeErr("SaveRoute"))
            ELSE MkRegistered(RegisterForm(fs, f), <<route>>,
                              <<"storage.SaveRoute", "router.RegisterForm">>,
                              NoErr)
     ELSE MkRegistered(RegisterForm(fs, f), <<>>, <<"router.RegisterForm">>,
                       NoErr)

\* Admin.RegisterForm; st is a.storage, saveFails: SaveRoute returns an error
Admin_RegisterForm(fs, st, f, saveFails) ==
  LET registered == RegisterForm(fs, f)
      route == MkRoute(f.Name, "/admin/forms/", f.Title, f.Description, "form")
  IN IF st # "nil"
       THEN MkRegistered(registered,
                         IF saveFails THEN <<>> ELSE <<route>>,
                         <<"router.RegisterForm", "storage.SaveRoute">>,
                         NoErr)
     ELSE MkRegistered(registered, <<>>, <<"router.RegisterForm">>, NoErr)

\* Admin.RegisterPage
Admin_RegisterPage(ps, st, p, saveFails) ==
  LET registered == RegisterPage(ps, p)
      route == MkRoute(p.Name, "/admin/pages/", p.Title, "", "page")
  IN IF st # "nil"
       THEN MkRegistered(registered,
                         IF saveFails THEN <<>> ELSE <<route>>,
                         <<"router.RegisterPage", "storage.SaveRoute">>,
                         NoErr)
     ELSE MkRegistered(registered, <<>>, <<"router.RegisterPage">>, NoErr)

\* ------------------------------------------------------ the form builder
\* NewForm: fb.form
NewForm(name, title) == MkForm(name, title, <<>>, "nil", "nil")

\* FormBuilder.WithDescription on fb.form = f
FormBuilder_WithDescription(f, description) ==
  [f EXCEPT !.Description = description]

\* FormBuilder.AddField putting the field in front
FormBuilder_AddField_prepend(f, fld) ==
  [f EXCEPT !.Fields = <<fld>> \o @]

\* FormBuilder.AddField
FormBuilder_AddField(f, fld) ==
  [f EXCEPT !.Fields = Append(@, fld)]

\* FormBuilder.AddTextField
FormBuilder_AddTextField(f, name, label) ==
  FormBuilder_AddField(f, MkField(name, FieldTypeText, label, FALSE, <<>>))

\* FormBuilder.AddEmailField (the source's message is in Russian)
FormBuilder_AddEmailField(f, name, label) ==
  FormBuilder_AddField(f,
    MkField(name, FieldTypeEmail, label, FALSE,
            << MkRule("email", Nil, "Enter a valid email") >>))

\* FormBuilder.AddHiddenField
FormBuilder_AddHiddenField(f, name, v) ==
  FormBuilder_AddField(f,
    [MkField(name, FieldTypeHidden, "", FALSE, <<>>)
       EXCEPT !.DefaultValue = v])

\* FormBuilder.AddTableField: the field of the new TableFieldBuilder; fb.form
\* is not touched
FormBuilder_AddTableField(name, label) ==
  [MkField(name, FieldTypeTable, label, FALSE, <<>>)
     EXCEPT !.TableConfig =
       [isNil |-> FALSE, Columns |-> <<>>, Pagination |-> TRUE,
        PageSize |-> 10, Sortable |-> TRUE, Filterable |-> TRUE,
        Selectable |-> FALSE, Editable |-> FALSE]]

\* FormBuilder.AddGroup
FormBuilder_AddGroup(f, name, title, fields) ==
  [f EXCEPT !.Groups = Append(@, MkFieldGroup(name, title, fields))]

\* FormBuilder.OnPost
FormBuilder_OnPost(f, handler) == [f EXCEPT !.OnPost = handler]

\* FormBuilder.OnGet
FormBuilder_OnGet(f, handler) == [f EXCEPT !.OnGet = handler]

\* what Build returned: built.form is fb.form as it was at that moment;
\* open counts the sub-builders not finalized into fb by then
MkBuilt(handed, f, open, panicked) ==
  [handed |-> handed, form |-> f, open |-> open, panicked |-> panicked]

\* FormBuilder.Build, called while open sub-builders are not finalized:
\* `return fb.form`, the pointer the builder keeps; nothing else is looked at
FormBuilder_Build(f, open) == MkBuilt(TRUE, f, open, FALSE)

\* types.TableColumn as the literal of AddTextColumn builds it
MkTableColumn(key, title, type) ==
  [Key |-> key, Title |-> title, Type |-> type, Sortable |-> FALSE,
   Filterable |-> FALSE, Width |-> "", Align |-> "", Options |-> <<>>,
   Multiple |-> FALSE]

\* TableFieldBuilder.AddColumn on tfb.field.TableConfig = config
TableFieldBuilder_AddColumn(config, column) ==
  [config EXCEPT !.Columns = Append(@, column)]

\* TableFieldBuilder.AddTextColumn
TableFieldBuilder_AddTextColumn(config, key, title) ==
  TableFieldBuilder_AddColumn(config, MkTableColumn(key, title, FieldTypeText))

\* TableFieldBuilder.WithSortable marking every column
TableFieldBuilder_WithSortable_all(config) ==
  [config EXCEPT !.Columns =
     [i \in 1..Len(config.Columns) |->
        [config.Columns[i] EXCEPT !.Sortable = TRUE]]]

\* TableFieldBuilder.WithSortable: the last column, when there is one
TableFieldBuilder_WithSortable(config) ==
  IF Len(config.Columns) > 0
    THEN [config EXCEPT !.Columns[Len(config.Columns)].Sortable = TRUE]
  ELSE config

\* TableFieldBuilder.WithFilterable
TableFieldBuilder_WithFilterable(config) ==
  IF Len(config.Columns) > 0
    THEN [config EXCEPT !.Columns[Len(config.Columns)].Filterable = TRUE]
  ELSE config

\* TableFieldBuilder.WithWidth
TableFieldBuilder_WithWidth(config, width) ==
  IF Len(config.Columns) > 0
    THEN [config EXCEPT !.Columns[Len(config.Columns)].Width = width]
  ELSE config

\* TableFieldBuilder.WithAlign
TableFieldBuilder_WithAlign(config, align) ==
  IF Len(config.Columns) > 0
    THEN [config EXCEPT !.Columns[Len(config.Columns)].Align = align]
  ELSE config

\* TableFieldBuilder.WithPagination
TableFieldBuilder_WithPagination(config, enabled) ==
  [config EXCEPT !.Pagination = enabled]

\* TableFieldBuilder.WithSelectable
TableFieldBuilder_WithSelectable(config, enabled) ==
  [config EXCEPT !.Selectable = enabled]

\* TableFieldBuilder.WithEditable
TableFieldBuilder_WithEditable(config, enabled) ==
  [config EXCEPT !.Editable = enabled]

\* TableFieldBuilder.WithPageSize
TableFieldBuilder_WithPageSize(config, size) ==
  [config EXCEPT !.PageSize = size]

\* TableFieldBuilder.Build(fb): fb.AddField(*tfb.field)
TableFieldBuilder_Build(f, fld) == FormBuilder_AddField(f, fld)

\* A write through tfb.field.TableConfig: *tfb.field was copied into
\* fb.form.Fields at the positions `at`, and each copy holds the same
\* *TableConfig pointer, so the copies see the write.
WriteTableConfig(f, at, config) ==
  [f EXCEPT !.Fields =
     [i \in 1..Len(f.Fields) |->
        IF i \in at THEN [f.Fields[i] EXCEPT !.TableConfig = config]
        ELSE f.Fields[i]]]

\* ------------------------------------------- form/utils.go: the struct mapper
UpperLetters ==
  <<"A", "B", "C", "D", "E", "F", "G", "H", "I", "J", "K", "L", "M",
    "N", "O", "P", "Q", "R", "S", "T", "U", "V", "W", "X", "Y", "Z">>
LowerLetters ==
  <<"a", "b", "c", "d", "e", "f", "g", "h", "i", "j", "k", "l", "m",
    "n", "o", "p", "q", "r", "s", "t", "u", "v", "w", "x", "y", "z">>

\* strings.ToLower on ASCII text
strings_ToLower(str) ==
  [i \in 1..Len(str) |->
     IF \E k \in 1..Len(UpperLetters) : UpperLetters[k] = str[i]
       THEN LowerLetters[CHOOSE k \in 1..Len(UpperLetters) :
                           UpperLetters[k] = str[i]]
     ELSE str[i]]

\* strings.Contains
strings_Contains(str, substr) ==
  \E i \in 0..(Len(str) - Len(substr)) :
    SubSeq(str, i + 1, i + Len(substr)) = substr

\* reflect.StructField: Name, Type.Kind(), the struct tags the mapper reads
\* ("" and <<>> stand for an absent tag), and IsExported
MkStructField(name, kind, formTag, labelTag, typeTag, requiredTag, exported) ==
  [Name |-> name, Kind |-> kind,
   Tag |-> [form |-> formTag, label |-> labelTag, type |-> typeTag,
            required |-> requiredTag],
   IsExported |-> exported]

\* getFieldName
getFieldName(field) ==
  IF field.Tag.form # <<>> THEN field.Tag.form
  ELSE strings_ToLower(field.Name)

\* getFieldLabel
getFieldLabel(field) ==
  IF field.Tag.label # <<>> THEN field.Tag.label ELSE field.Name

\* the type tags of the switch of getFieldType
TypeTags ==
  {"email", "password", "textarea", "select", "radio", "checkbox", "date",
   "time", "file", "hidden", "number"}

\* the switch on field.Type.Kind() of getFieldType
kindFieldType(field) ==
  CASE field.Kind = "bool" -> FieldTypeCheckbox
    [] field.Kind \in {"int", "int8", "int16", "int32", "int64",
                       "uint", "uint8", "uint16", "uint32", "uint64",
                       "float32", "float64"} -> FieldTypeNumber
    [] field.Kind = "string" ->
         LET fieldName == strings_ToLower(field.Name)
         IN IF strings_Contains(fieldName, <<"e", "m", "a", "i", "l">>)
              THEN FieldTypeEmail
            ELSE IF strings_Contains(fieldName,
                      <<"p", "a", "s", "s", "w", "o", "r", "d">>)
              THEN FieldTypePassword
            ELSE FieldTypeText
    [] OTHER -> FieldTypeText

\* getFieldType looking at the native type only
getFieldType_noTag(field) == kindFieldType(field)

\* getFieldType: each case of the tag switch returns the FieldType constant
\* spelled like the tag
getFieldType(field) ==
  IF field.Tag.type # "" /\ field.Tag.type \in TypeTags
    THEN field.Tag.type
  ELSE kindFieldType(field)

\* getFieldRequired taking "true" only
getFieldRequired_trueOnly(field) == field.Tag.required = "true"

\* getFieldRequired
getFieldRequired(field) ==
  field.Tag.required = "true" \/ field.Tag.required = "1"

\* createFieldFromStructField without the rule for email fields
createFieldFromStructField_noRule(field) ==
  MkField(getFieldName(field), getFieldType(field), getFieldLabel(field),
          getFieldRequired(field), <<>>)

\* createFieldFromStructField (the source's message is in Russian)
createFieldFromStructField(field) ==
  LET type == getFieldType(field)
  IN MkField(getFieldName(field), type, getFieldLabel(field),
             getFieldRequired(field),
             IF type = FieldTypeEmail
               THEN << MkRule("email", Nil, "Enter a valid email") >>
             ELSE <<>>)

RECURSIVE fromStructFields(_, _, _)
\* the loop over t.Field(i) of FromStruct from member i on
fromStructFields(f, members, i) ==
  IF i > Len(members) THEN f
  ELSE IF ~members[i].IsExported THEN fromStructFields(f, members, i + 1)
  ELSE LET formField == createFieldFromStructField(members[i])
       IN IF formField.Name # <<>>
            THEN fromStructFields(FormBuilder_AddField(f, formField),
                                  members, i + 1)
          ELSE fromStructFields(f, members, i + 1)

\* FromStruct without the IsExported test
FromStruct_keepUnexported(name, title, st) ==
  IF st.kind \in {"struct", "ptr to struct"}
    THEN [NewForm(name, title) EXCEPT !.Fields =
            [i \in 1..Len(st.members) |->
               createFieldFromStructField(st.members[i])]]
  ELSE NewForm(name, title)

\* FromStruct without the dereference of a pointer
FromStruct_structOnly(name, title, st) ==
  IF st.kind = "struct"
    THEN fromStructFields(NewForm(name, title), st.members, 1)
  ELSE NewForm(name, title)

\* FromStruct: fb.form of the builder it returns; a pointer is dereferenced
\* once, and anything but a struct gives the empty builder
FromStruct(name, title, st) ==
  IF st.kind \in {"struct", "ptr to struct"}
    THEN fromStructFields(NewForm(name, title), st.members, 1)
  ELSE NewForm(name, title)

\* ----------------------------------------------------- router configuration
\* a chi mux as a request meets it: the middleware chain in order of Use, and
\* whether /admin/login and /admin/logout are routed
MkMux(chain, login) == [chain |-> chain, login |-> login]

\* Router.setupMiddleware: what it installs on a new mux
setupMiddleware(r) ==
  <<"Logger", "Recoverer", "RequestID">> \o
  (IF r.corsEnabled THEN <<"cors">> ELSE <<>>) \o
  r.middlewares

\* Router.setupRoutes: the auth routes it mounts on the mux
setupRoutes(r) == r.authEnabled

\* r.mux = chi.NewRouter(); r.setupMiddleware(); r.setupRoutes()
rebuildMux(r) == [r EXCEPT !.mux = MkMux(setupMiddleware(r), setupRoutes(r))]

\* router.NewRouter
NewRouter ==
  rebuildMux([mux |-> MkMux(<<>>, FALSE), title |-> "Admin Panel",
              authEnabled |-> FALSE, corsEnabled |-> FALSE,
              corsOrigins |-> <<"*">>, middlewares |-> <<>>])

\* Router.SetTitle
Router_SetTitle(r, title) == [r EXCEPT !.title = title]

\* Router.EnableAuth
Router_EnableAuth(r, enabled) == [r EXCEPT !.authEnabled = enabled]

\* Router.EnableCORS
Router_EnableCORS(r, enabled, origins) ==
  rebuildMux([r EXCEPT !.corsEnabled = enabled,
                       !.corsOrigins = IF Len(origins) > 0 THEN origins
                                       ELSE @])

\* Router.AddMiddleware
Router_AddMiddleware(r, middleware) ==
  [r EXCEPT !.middlewares = Append(@, middleware)]

\* Router.Handler
Router_Handler(r) == r.mux

\* =================================================================== state
VARIABLES
  field,         \* the *types.Field handed to form.ValidateField
  value,         \* the value handed to form.ValidateField
  fieldOutcome,  \* what ValidateField returned and which rules it evaluated
  form,          \* the *types.Form handed to the router and the projector
  data,          \* the decoded payload handed to validateFormData
  formOutcome,   \* what validateFormData returned and which rules it ran
  jsonSchema,    \* the *JSONSchema GenerateJSONSchema(form) returned
  uiSchema,      \* the map GenerateUISchema(form) returned
  done,          \* the operations applied so far to field/form
  forms,         \* Router.forms: the registered forms by name
  pages,         \* Router.pages: the registered pages by name
  formLog,       \* the forms RegisterForm was called with, in call order
  pageLog,       \* the pages RegisterPage was called with, in call order
  resp,          \* the last request served and the response written
  calls          \* the steps the last request took: decoding, validation,
                 \* projection and the handlers it invoked, in order

\* the variables of a field or form under validation and projection
fvars == <<field, value, fieldOutcome, form, data, formOutcome, jsonSchema,
           uiSchema, done>>
\* the variables of the router
rvars == <<forms, pages, formLog, pageLog, resp, calls>>

VARIABLES
  storage,       \* Admin.storage: "nil" or "attached"
  routes,        \* the routes the attached storage holds, in saving order
  adminCall      \* the last Admin.RegisterForm / RegisterPage call and what
                 \* it did

VARIABLES
  fbForm,        \* the types.Form that fb.form points to
  tfbs,          \* the TableFieldBuilders obtained from fb.AddTableField:
                 \* tfb.field, and where copies of it sit in fb.form.Fields
  built,         \* what fb.Build() returned, and fb.form as it was then
  blog           \* the fields and groups handed to the builder, in call order

\* the variables of the Admin facade
avars == <<storage, routes, adminCall>>

VARIABLES
  form0          \* the Form as it was handed to the projectors

\* the variables of the form builder
bvars == <<fbForm, tfbs, built, blog>>

VARIABLES
  structType,    \* the value handed to FromStruct: its kind and members
  mapped         \* per FromStruct call: fb.form of the builder it returned,
                 \* how the struct was passed, whether the caller went on
                 \* to add a field to that builder

\* the variables of the projectors' caller
pvars == <<form0>>

VARIABLES
  admRouter,     \* the Router of the Admin under configuration
  setters,       \* the configuration calls made on the Admin, in order
  handler        \* what Admin.Handler() returned, once it was called

\* the variables of the struct mapper
mvars == <<structType, mapped>>

\* the variables of the Admin's configuration
cvars == <<admRouter, setters, handler>>

\* the variables outside the router and outside validation and projection
xvars == <<avars, bvars, pvars, mvars, cvars>>

vars == <<field, value, fieldOutcome, form, data, formOutcome, jsonSchema,
          uiSchema, done, forms, pages, formLog, pageLog, resp, calls,
          storage, routes, adminCall, fbForm, tfbs, built, blog, form0,
          structType, mapped, admRouter, setters, handler>>

NoSchema == MkJSONSchema("", "", EmptyMap, <<>>)

NotRun == MkOutcome(TypeErr("not run"), <<>>)
FormNotRun == MkFormOutcome(TypeErr("not run"), "", <<>>)

\* a request and the response written for it; formsAt and pagesAt are the
\* numbers of RegisterForm and RegisterPage calls that preceded the request
MkResp(op, name, body, status, respData, formsAt, pagesAt) ==
  [op |-> op, name |-> name, body |-> body, status |-> status,
   data |-> respData, formsAt |-> formsAt, pagesAt |-> pagesAt]

\* a request body: whether json.Decode succeeds on it, and what it decodes to
MkBody(ok, payload) == [ok |-> ok, data |-> payload]
NoBody == MkBody(FALSE, EmptyMap)

NoResp == MkResp("none", "", NoBody, 0, EmptyMap, 0, 0)

\* NewRouter: empty registries, nothing served
RouterIdle ==
  /\ forms = EmptyMap
  /\ pages = EmptyMap
  /\ formLog = <<>>
  /\ pageLog = <<>>
  /\ resp = NoResp
  /\ calls = <<>>

\* what an Admin.RegisterForm / RegisterPage call was given and did
MkAdminCall(op, arg, st, saveFails, steps, err) ==
  [op |-> op, arg |-> arg, storage |-> st, saveFails |-> saveFails,
   steps |-> steps, err |-> err]

NoAdminCall == MkAdminCall("none", "", "nil", FALSE, <<>>, NoErr)

\* New: no storage attached
AdminIdle ==
  /\ storage = "nil"
  /\ routes = <<>>
  /\ adminCall = NoAdminCall

\* validation and projection untouched
FormIdle ==
  /\ field = MkField("", FieldTypeText, "", FALSE, <<>>)
  /\ value = Nil
  /\ fieldOutcome = NotRun
  /\ form = MkForm("", "", <<>>, "nil", "nil")
  /\ data = EmptyMap
  /\ formOutcome = FormNotRun
  /\ jsonSchema = NoSchema
  /\ uiSchema = EmptyMap
  /\ done = {}

\* no builder at work
BuilderIdle ==
  /\ fbForm = MkForm("", "", <<>>, "nil", "nil")
  /\ tfbs = <<>>
  /\ built = MkBuilt(FALSE, MkForm("", "", <<>>, "nil", "nil"), 0, FALSE)
  /\ blog = [fields |-> <<>>, groups |-> <<>>, n |-> 0]

\* no projection under watch
ProjectIdle == form0 = MkForm("", "", <<>>, "nil", "nil")

\* no struct mapped
MapperIdle ==
  /\ structType = [kind |-> "struct", members |-> <<>>]
  /\ mapped = <<>>

\* Handler() not called yet
NoHandler == [returned |-> FALSE, mux |-> MkMux(<<>>, FALSE)]

\* no Admin under configuration
ConfigIdle ==
  /\ admRouter = NewRouter
  /\ setters = <<>>
  /\ handler = NoHandler

ExtIdle ==
  AdminIdle /\ BuilderIdle /\ ProjectIdle /\ MapperIdle /\ ConfigIdle

\* ------------------------------------------------------------ input domains
SampleStrings ==
  { <<"a", "b">>, <<"a", "@", "a", ".", "a", "a">>, <<"1", "5", "0">>,
    <<"1", ".", "5">>, <<"-", "1">>, <<"\t">> }

StringValues == {Str(s) : s \in StringsUpTo(MaxStrLen) \cup SampleStrings}

\* what encoding/json decodes into an interface{}
JSONValues ==
  StringValues \cup
  { Nil, List(0), List(1), Bool(TRUE), Map,
    Num("float64", 3, 0), Num("float64", 15, 1) }

\* values of native Go types a caller of ValidateField can pass
NativeValues ==
  { Num("int", 7, 0), Num("int64", 1, 0), Num("float32", 5, 1),
    Num("uint8", 3, 0) }

Values == JSONValues \cup NativeValues

Rules ==
  { MkRule("email", Nil, ""),
    MkRule("email", Nil, "bad email"),
    MkRule("min", Num("int", 2, 0), ""),
    MkRule("min", Num("int", 0, 0), ""),
    MkRule("max", Num("int", 120, 0), ""),
    MkRule("min", Str(<<"x">>), ""),
    MkRule("max", Num("float64", 15, 1), "too big"),
    MkRule("minLength", Num("int", 5, 0), ""),
    MkRule("minLength", Num("float64", 15, 1), "too short"),
    MkRule("minLength", Nil, ""),
    MkRule("maxLength", Str(<<"1">>), ""),
    MkRule("pattern", Str(DigitsPattern), ""),
    MkRule("pattern", Str(<<"a", ".">>), "no match"),
    MkRule("pattern", Str(<<"(">>), ""),
    MkRule("pattern", Num("int", 1, 0), ""),
    MkRule("unique", Nil, "") }

RECURSIVE SeqsUpTo(_, _)
\* the sequences over S of length at most n
SeqsUpTo(S, n) ==
  IF n = 0 THEN {<<>>}
  ELSE LET shorter == SeqsUpTo(S, n - 1)
       IN shorter \cup {Append(q, x) : q \in {y \in shorter : Len(y) = n - 1},
                                       x \in S}

RuleLists == SeqsUpTo(Rules, MaxRules)

\* the fields ValidateField is applied to
Fields ==
  { MkField("f", FieldTypeText, "F", required, rules) :
      required \in BOOLEAN, rules \in RuleLists }

\* a form holding only this field, with a submit handler
FormOf(f) == MkForm("form", "Form", <<f>>, "onPost", "nil")

\* ------------------------------------------------- validation of one field
InitValidate ==
  /\ field \in Fields
  /\ value \in Values
  /\ form = FormOf(field)
  /\ data \in {EmptyMap} \cup
              (IF value \in JSONValues THEN {Put(EmptyMap, field.Name, value)}
               ELSE {})
  /\ fieldOutcome = NotRun
  /\ formOutcome = FormNotRun
  /\ jsonSchema = NoSchema
  /\ uiSchema = EmptyMap
  /\ done = {}
  /\ RouterIdle
  /\ ExtIdle

\* a call form.ValidateField(&field, value)
CallValidateField ==
  /\ "ValidateField" \notin done
  /\ fieldOutcome' = ValidateField(field, value)
  /\ done' = done \cup {"ValidateField"}
  /\ UNCHANGED <<field, value, form, data, formOutcome, jsonSchema, uiSchema>>
  /\ UNCHANGED <<rvars, xvars>>

\* a call r.validateFormData(form, data)
CallValidateFormData ==
  /\ "validateFormData" \notin done
  /\ formOutcome' = validateFormData(form, data)
  /\ done' = done \cup {"validateFormData"}
  /\ UNCHANGED <<field, value, form, data, fieldOutcome, jsonSchema, uiSchema>>
  /\ UNCHANGED <<rvars, xvars>>

NextValidate == CallValidateField \/ CallValidateFormData

SpecValidate == InitValidate /\ [][NextValidate]_vars

\* ------------------------------------------------ projection of one form
FieldNames == {"a", "b"}

\* the fields of projected forms: hidden, text and number fields, required
\* or not; number fields carry a min rule
SchemaFields ==
  { MkField(name, type, name, required,
            IF type = FieldTypeNumber
              THEN << MkRule("min", Num("float64", 2, 0), "") >> ELSE <<>>) :
      name \in FieldNames,
      type \in {FieldTypeText, FieldTypeHidden, FieldTypeNumber},
      required \in BOOLEAN }

SchemaForms ==
  { MkForm("form", "Form", fields, "onPost", "nil") :
      fields \in SeqsUpTo(SchemaFields, MaxFields) }

PayloadValues == { Str(<<"a">>), Str(<<" ">>), Num("float64", 3, 0),
                   Num("float64", 1, 0) }

\* the payloads: maps from some of the field names to values
Payloads ==
  UNION { [keys -> PayloadValues] : keys \in SUBSET FieldNames }

InitSchema ==
  /\ form \in SchemaForms
  /\ data \in Payloads
  /\ field = MkField("", FieldTypeText, "", FALSE, <<>>)
  /\ value = Nil
  /\ fieldOutcome = NotRun
  /\ formOutcome = FormNotRun
  /\ jsonSchema = NoSchema
  /\ uiSchema = EmptyMap
  /\ done = {}
  /\ RouterIdle
  /\ ExtIdle

\* a call schema.GenerateJSONSchema(form)
CallGenerateJSONSchema ==
  /\ "GenerateJSONSchema" \notin done
  /\ jsonSchema' = GenerateJSONSchema(form)
  /\ done' = done \cup {"GenerateJSONSchema"}
  /\ UNCHANGED <<field, value, fieldOutcome, form, data, formOutcome,
                 uiSchema>>
  /\ UNCHANGED <<rvars, xvars>>

\* a call schema.GenerateUISchema(form)
CallGenerateUISchema ==
  /\ "GenerateUISchema" \notin done
  /\ uiSchema' = GenerateUISchema(form)
  /\ done' = done \cup {"GenerateUISchema"}
  /\ UNCHANGED <<field, value, fieldOutcome, form, data, formOutcome,
                 jsonSchema>>
  /\ UNCHANGED <<rvars, xvars>>

NextSchema ==
  CallGenerateJSONSchema \/ CallGenerateUISchema \/ CallValidateFormData

SpecSchema == InitSchema /\ [][NextSchema]_vars

\* ------------------------------------------------------ the router at work
RouteNames == {"users", "posts"}
\* a name no form or page is registered under
UnknownName == "ghost"

\* the field every registered form holds: a required text of 2 bytes or more
NameField ==
  MkField("name", FieldTypeText, "Name", TRUE,
          << MkRule("minLength", Num("float64", 2, 0), "") >>)

\* the forms handed to RegisterForm: under one name a form with both
\* handlers, one with a submit handler only and one with no handler; under
\* the other name a form with both handlers
RouterForms ==
  { MkForm("users", "First", <<NameField>>, "post1", "get1"),
    MkForm("users", "Second", <<NameField>>, "post2", "nil"),
    MkForm("users", "Third", <<NameField>>, "nil", "nil"),
    MkForm("posts", "First", <<NameField>>, "post1", "get1") }

\* the pages handed to RegisterPage: with and without a Handler
RouterPages ==
  { MkPage("users", "Plain", "content", "nil"),
    MkPage("users", "Custom", "", "serve"),
    MkPage("posts", "Plain", "content", "nil") }

\* request bodies: one json.Decode fails on, and payloads that validation
\* rejects (no key, too short) or accepts
Bodies ==
  { NoBody,
    MkBody(TRUE, EmptyMap),
    MkBody(TRUE, Put(EmptyMap, "name", Str(<<"a">>))),
    MkBody(TRUE, Put(EmptyMap, "name", Str(<<"a", "b">>))) }

Registrations == Len(formLog) + Len(pageLog)

InitRouter ==
  /\ RouterIdle
  /\ ExtIdle
  /\ field = MkField("", FieldTypeText, "", FALSE, <<>>)
  /\ value = Nil
  /\ fieldOutcome = NotRun
  /\ form = MkForm("", "", <<>>, "nil", "nil")
  /\ data = EmptyMap
  /\ formOutcome = FormNotRun
  /\ jsonSchema = NoSchema
  /\ uiSchema = EmptyMap
  /\ done = {}

\* r.RegisterForm(f)
DoRegisterForm ==
  /\ Registrations < MaxRegs
  /\ \E f \in RouterForms :
       /\ forms' = RegisterForm(forms, f)
       /\ formLog' = Append(formLog, f)
  /\ UNCHANGED <<pages, pageLog, resp, calls>>
  /\ UNCHANGED <<fvars, xvars>>

\* r.RegisterPage(p)
DoRegisterPage ==
  /\ Registrations < MaxRegs
  /\ \E p \in RouterPages :
       /\ pages' = RegisterPage(pages, p)
       /\ pageLog' = Append(pageLog, p)
  /\ UNCHANGED <<forms, formLog, resp, calls>>
  /\ UNCHANGED <<fvars, xvars>>

\* the router writes the response of a handler
Serve(op, name, body, served) ==
  /\ resp' = MkResp(op, name, body, served.status, served.data,
                    Len(formLog), Len(pageLog))
  /\ calls' = served.steps
  /\ UNCHANGED <<forms, pages, formLog, pageLog>>
  /\ UNCHANGED <<fvars, xvars>>

\* GET /admin/forms/
GetFormsList == Serve("GET forms", "", NoBody, handleFormsList(forms))

\* GET /admin/forms/{name}
GetForm ==
  \E name \in RouteNames \cup {UnknownName} : \E getFails \in BOOLEAN :
    Serve("GET form", name, NoBody, handleFormGet(forms, name, getFails))

\* POST /admin/forms/{name}
PostForm ==
  \E name \in RouteNames \cup {UnknownName} : \E body \in Bodies :
    \E postFails \in BOOLEAN :
      Serve("POST form", name, body,
            handleFormPost(forms, name, body, postFails))

\* GET /admin/pages/{name}
GetPage ==
  \E name \in RouteNames \cup {UnknownName} :
    Serve("GET page", name, NoBody, handlePageGet(pages, name))

Next ==
  \/ DoRegisterForm
  \/ DoRegisterPage
  \/ GetFormsList
  \/ GetForm
  \/ PostForm
  \/ GetPage

Spec == InitRouter /\ [][Next]_vars

\* ------------------------------------------------------ the facade at work
InitAdmin ==
  /\ RouterIdle
  /\ FormIdle
  /\ ExtIdle

\* a.WithStorage(s) with a storage that is not nil
DoWithStorage ==
  /\ storage = "nil"
  /\ storage' = "attached"
  /\ UNCHANGED <<routes, adminCall>>
  /\ UNCHANGED <<rvars, fvars, bvars, pvars, mvars, cvars>>

\* a.RegisterForm(f); the storage accepts the route or returns an error
AdminRegisterForm ==
  /\ Registrations < MaxRegs
  /\ \E f \in RouterForms : \E saveFails \in BOOLEAN :
       LET r == Admin_RegisterForm(forms, storage, f, saveFails)
       IN /\ forms' = r.registry
          /\ formLog' = Append(formLog, f)
          /\ routes' = routes \o r.saved
          /\ adminCall' = MkAdminCall("RegisterForm", f, storage, saveFails, r.steps,
                                     r.err)
  /\ UNCHANGED <<storage, pages, pageLog, resp, calls>>
  /\ UNCHANGED <<fvars, bvars, pvars, mvars, cvars>>

\* a.RegisterPage(p)
AdminRegisterPage ==
  /\ Registrations < MaxRegs
  /\ \E p \in RouterPages : \E saveFails \in BOOLEAN :
       LET r == Admin_RegisterPage(pages, storage, p, saveFails)
       IN /\ pages' = r.registry
          /\ pageLog' = Append(pageLog, p)
          /\ routes' = routes \o r.saved
          /\ adminCall' = MkAdminCall("RegisterPage", p, storage, saveFails, r.steps,
                                     r.err)
  /\ UNCHANGED <<storage, forms, formLog, resp, calls>>
  /\ UNCHANGED <<fvars, bvars, pvars, mvars, cvars>>

NextAdmin == DoWithStorage \/ AdminRegisterForm \/ AdminRegisterPage

SpecAdmin == InitAdmin /\ [][NextAdmin]_vars

\* ----------------------------------------------------- the builder at work
BuilderNames == {"a", "b"}
HiddenName == "h"
TableName == "t"

\* after fb := NewForm("form", "Form")
InitBuilder ==
  /\ RouterIdle
  /\ FormIdle
  /\ AdminIdle
  /\ fbForm = NewForm("form", "Form")
  /\ tfbs = <<>>
  /\ built = MkBuilt(FALSE, MkForm("", "", <<>>, "nil", "nil"), 0, FALSE)
  /\ blog = [fields |-> <<>>, groups |-> <<>>, n |-> 0]
  /\ ProjectIdle
  /\ MapperIdle
  /\ ConfigIdle

\* one more call on the builder or on a sub-builder
Called == [blog EXCEPT !.n = @ + 1]

\* the field a call added, as it was handed over
Added(fld) == [blog EXCEPT !.n = @ + 1, !.fields = Append(@, fld)]

\* fb.AddTextField(name, name)
BAddTextField ==
  /\ blog.n < MaxCalls
  /\ \E name \in BuilderNames :
       /\ fbForm' = FormBuilder_AddTextField(fbForm, name, name)
       /\ blog' = Added(MkField(name, FieldTypeText, name, FALSE, <<>>))
  /\ UNCHANGED <<tfbs, built>>
  /\ UNCHANGED <<fvars, rvars, avars, pvars, mvars, cvars>>

\* fb.AddEmailField("b", "b")
BAddEmailField ==
  /\ blog.n < MaxCalls
  /\ fbForm' = FormBuilder_AddEmailField(fbForm, "b", "b")
  /\ blog' = Added(MkField("b", FieldTypeEmail, "b", FALSE,
                           << MkRule("email", Nil, "Enter a valid email") >>))
  /\ UNCHANGED <<tfbs, built>>
  /\ UNCHANGED <<fvars, rvars, avars, pvars, mvars, cvars>>

\* fb.AddHiddenField("h", "a")
BAddHiddenField ==
  /\ blog.n < MaxCalls
  /\ fbForm' = FormBuilder_AddHiddenField(fbForm, HiddenName, Str(<<"a">>))
  /\ blog' = Added([MkField(HiddenName, FieldTypeHidden, "", FALSE, <<>>)
                      EXCEPT !.DefaultValue = Str(<<"a">>)])
  /\ UNCHANGED <<tfbs, built>>
  /\ UNCHANGED <<fvars, rvars, avars, pvars, mvars, cvars>>

\* fb.AddGroup(name, "Group", []string{"a"})
BAddGroup ==
  /\ blog.n < MaxCalls
  /\ \E name \in {"g1", "g2"} :
       /\ fbForm' = FormBuilder_AddGroup(fbForm, name, "Group", <<"a">>)
       /\ blog' = [blog EXCEPT !.n = @ + 1,
                     !.groups = Append(@, MkFieldGroup(name, "Group", <<"a">>))]
  /\ UNCHANGED <<tfbs, built>>
  /\ UNCHANGED <<fvars, rvars, avars, pvars, mvars, cvars>>

\* fb.WithDescription("about")
BWithDescription ==
  /\ blog.n < MaxCalls
  /\ fbForm.Description = ""
  /\ fbForm' = FormBuilder_WithDescription(fbForm, "about")
  /\ blog' = Called
  /\ UNCHANGED <<tfbs, built>>
  /\ UNCHANGED <<fvars, rvars, avars, pvars, mvars, cvars>>

\* fb.OnPost(h)
BOnPost ==
  /\ blog.n < MaxCalls
  /\ fbForm.OnPost = "nil"
  /\ fbForm' = FormBuilder_OnPost(fbForm, "post1")
  /\ blog' = Called
  /\ UNCHANGED <<tfbs, built>>
  /\ UNCHANGED <<fvars, rvars, avars, pvars, mvars, cvars>>

\* fb.OnGet(h)
BOnGet ==
  /\ blog.n < MaxCalls
  /\ fbForm.OnGet = "nil"
  /\ fbForm' = FormBuilder_OnGet(fbForm, "get1")
  /\ blog' = Called
  /\ UNCHANGED <<tfbs, built>>
  /\ UNCHANGED <<fvars, rvars, avars, pvars, mvars, cvars>>

\* tfb := fb.AddTableField("t", "Table")
BAddTableField ==
  /\ blog.n < MaxCalls
  /\ Len(tfbs) < MaxTables
  /\ tfbs' = Append(tfbs, [field |-> FormBuilder_AddTableField(TableName,
                                                              "Table"),
                           at |-> {}])
  /\ blog' = Called
  /\ UNCHANGED <<fbForm, built>>
  /\ UNCHANGED <<fvars, rvars, avars, pvars, mvars, cvars>>

\* a call on sub-builder k that leaves config in tfb.field.TableConfig
TableWrite(k, config) ==
  /\ tfbs' = [tfbs EXCEPT ![k].field.TableConfig = config]
  /\ fbForm' = WriteTableConfig(fbForm, tfbs[k].at, config)
  /\ blog' = Called
  /\ UNCHANGED built
  /\ UNCHANGED <<fvars, rvars, avars, pvars, mvars, cvars>>

\* tfb.AddTextColumn("id", "ID")
TAddTextColumn ==
  /\ blog.n < MaxCalls
  /\ \E k \in 1..Len(tfbs) :
       TableWrite(k, TableFieldBuilder_AddTextColumn(
                       tfbs[k].field.TableConfig, "id", "ID"))

\* tfb.WithSortable()
TWithSortable ==
  /\ blog.n < MaxCalls
  /\ \E k \in 1..Len(tfbs) :
       TableWrite(k, TableFieldBuilder_WithSortable(tfbs[k].field.TableConfig))

\* tfb.WithPageSize(25)
TWithPageSize ==
  /\ blog.n < MaxCalls
  /\ \E k \in 1..Len(tfbs) :
       /\ tfbs[k].field.TableConfig.PageSize # 25
       /\ TableWrite(k, TableFieldBuilder_WithPageSize(
                          tfbs[k].field.TableConfig, 25))

\* tfb.WithFilterable()
TWithFilterable ==
  /\ blog.n < MaxCalls
  /\ \E k \in 1..Len(tfbs) :
       TableWrite(k, TableFieldBuilder_WithFilterable(
                       tfbs[k].field.TableConfig))

\* tfb.WithWidth("100px")
TWithWidth ==
  /\ blog.n < MaxCalls
  /\ \E k \in 1..Len(tfbs) :
       TableWrite(k, TableFieldBuilder_WithWidth(tfbs[k].field.TableConfig,
                                                 "100px"))

\* tfb.WithAlign("center")
TWithAlign ==
  /\ blog.n < MaxCalls
  /\ \E k \in 1..Len(tfbs) :
       TableWrite(k, TableFieldBuilder_WithAlign(tfbs[k].field.TableConfig,
                                                 "center"))

\* tfb.WithPagination(false)
TWithPagination ==
  /\ blog.n < MaxCalls
  /\ \E k \in 1..Len(tfbs) :
       TableWrite(k, TableFieldBuilder_WithPagination(
                       tfbs[k].field.TableConfig, FALSE))

\* tfb.WithSelectable(true)
TWithSelectable ==
  /\ blog.n < MaxCalls
  /\ \E k \in 1..Len(tfbs) :
       TableWrite(k, TableFieldBuilder_WithSelectable(
                       tfbs[k].field.TableConfig, TRUE))

\* tfb.WithEditable(true)
TWithEditable ==
  /\ blog.n < MaxCalls
  /\ \E k \in 1..Len(tfbs) :
       TableWrite(k, TableFieldBuilder_WithEditable(
                       tfbs[k].field.TableConfig, TRUE))

\* fields a caller can hand to AddField as it likes: a table field without
\* table configuration, and a text field with one
LooseFields ==
  { MkField(TableName, FieldTypeTable, "Table", FALSE, <<>>),
    [MkField("a", FieldTypeText, "a", FALSE, <<>>) EXCEPT
       !.TableConfig = FormBuilder_AddTableField("a", "a").TableConfig] }

\* fb.AddField(field)
BAddField ==
  /\ blog.n < MaxCalls
  /\ \E fld \in LooseFields :
       /\ fbForm' = FormBuilder_AddField(fbForm, fld)
       /\ blog' = Added(fld)
  /\ UNCHANGED <<tfbs, built>>
  /\ UNCHANGED <<fvars, rvars, avars, pvars, mvars, cvars>>

\* tfb.Build(fb)
TBuild ==
  /\ blog.n < MaxCalls
  /\ \E k \in 1..Len(tfbs) :
       /\ fbForm' = TableFieldBuilder_Build(fbForm, tfbs[k].field)
       /\ tfbs' = [tfbs EXCEPT ![k].at = @ \cup {Len(fbForm.Fields) + 1}]
       /\ blog' = Added(tfbs[k].field)
  /\ UNCHANGED built
  /\ UNCHANGED <<fvars, rvars, avars, pvars, mvars, cvars>>

\* the first fb.Build()
BBuild ==
  /\ blog.n < MaxCalls
  /\ ~built.handed
  /\ built' = FormBuilder_Build(
                fbForm, Cardinality({k \in 1..Len(tfbs) : tfbs[k].at = {}}))
  /\ blog' = Called
  /\ UNCHANGED <<fbForm, tfbs>>
  /\ UNCHANGED <<fvars, rvars, avars, pvars, mvars, cvars>>

NextBuilder ==
  \/ BAddTextField
  \/ BAddEmailField
  \/ BAddHiddenField
  \/ BAddGroup
  \/ BWithDescription
  \/ BOnPost
  \/ BOnGet
  \/ BAddTableField
  \/ TAddTextColumn
  \/ TWithSortable
  \/ TWithPageSize
  \/ TWithFilterable
  \/ TWithWidth
  \/ TWithAlign
  \/ TWithPagination
  \/ TWithSelectable
  \/ TWithEditable
  \/ BAddField
  \/ TBuild
  \/ BBuild

SpecBuilder == InitBuilder /\ [][NextBuilder]_vars

\* -------------------------------------------------- the projectors at work
\* every FieldType constant, and a type that is none of them
ProjectTypes ==
  {FieldTypeText, FieldTypeEmail, FieldTypePassword, FieldTypeNumber,
   FieldTypeTextarea, FieldTypeSelect, FieldTypeRadio, FieldTypeCheckbox,
   FieldTypeDate, FieldTypeTime, FieldTypeFile, FieldTypeHidden,
   FieldTypeTable, "color"}

OptionLists ==
  {<<>>, <<MkSelectOption("x", "X"), MkSelectOption("y", "Y")>>}

\* column keys; "total" is also the name of a property of the table schema
ColumnKeys == {"id", "total"}

\* a nil *TableConfig, and configurations as AddTableField makes them with
\* up to MaxColumns text columns
TableConfigs ==
  {NilTableConfig} \cup
  { [FormBuilder_AddTableField("t", "T").TableConfig EXCEPT !.Columns = cols] :
      cols \in SeqsUpTo({MkTableColumn(k, k, FieldTypeText) : k \in ColumnKeys},
                        MaxColumns) }

\* Field.Config maps: none, one under a key no projector derives, and one
\* under a key the projector derives for the type
ConfigsFor(type) ==
  {EmptyMap, [hint |-> 1]} \cup
  CASE type = FieldTypeTextarea -> {[rows |-> 10]}
    [] type \in {FieldTypeSelect, FieldTypeRadio} -> {[enumOptions |-> <<>>]}
    [] type = FieldTypeTable -> {[pageSize |-> 50]}
    [] OTHER -> {}

\* validation lists: none, or one rule whose parameter is a float64, a
\* native int, a numeric string, a pattern string, or of a kind without
\* parameter
ProjectRules ==
  {<<>>} \cup
  { <<r>> : r \in
      { MkRule("min", Num("float64", 2, 0), ""),
        MkRule("min", Num("int", 5, 0), ""),
        MkRule("max", Num("float64", 25, 1), ""),
        MkRule("max", Num("int", 120, 0), ""),
        MkRule("max", Str(<<"5">>), ""),
        MkRule("minLength", Num("float64", 2, 0), ""),
        MkRule("minLength", Num("int", 5, 0), ""),
        MkRule("maxLength", Num("float64", 25, 1), ""),
        MkRule("maxLength", Num("int", 120, 0), ""),
        MkRule("pattern", Str(DigitsPattern), ""),
        MkRule("pattern", Num("float64", 2, 0), ""),
        MkRule("email", Nil, ""),
        MkRule("custom", Num("float64", 2, 0), "") } }

\* the fields handed to the projectors, with members set only where the
\* projectors read them for the type
ProjectFieldsOfType(type) ==
  { [MkField("f", type, "F", FALSE, rules) EXCEPT
       !.Options = options, !.Multiple = multiple, !.DefaultValue = default,
       !.Placeholder = placeholder, !.Config = config,
       !.TableConfig = table] :
      options \in IF type \in {FieldTypeSelect, FieldTypeRadio}
                    THEN OptionLists ELSE {<<>>},
      multiple \in IF type \in {FieldTypeSelect, FieldTypeRadio}
                     THEN BOOLEAN ELSE {FALSE},
      default \in {Nil, Str(<<"a">>)},
      placeholder \in IF type = FieldTypeText THEN {"", "p"} ELSE {""},
      config \in ConfigsFor(type),
      table \in IF type = FieldTypeTable THEN TableConfigs
                ELSE {NilTableConfig},
      rules \in ProjectRules }

ProjectForms ==
  { MkForm("form", "Form", <<fld>>, "nil", "nil") :
      fld \in UNION {ProjectFieldsOfType(t) : t \in ProjectTypes} }

InitProject ==
  /\ form \in ProjectForms
  /\ form0 = form
  /\ data = EmptyMap
  /\ field = MkField("", FieldTypeText, "", FALSE, <<>>)
  /\ value = Nil
  /\ fieldOutcome = NotRun
  /\ formOutcome = FormNotRun
  /\ jsonSchema = NoSchema
  /\ uiSchema = EmptyMap
  /\ done = {}
  /\ RouterIdle
  /\ AdminIdle
  /\ BuilderIdle
  /\ MapperIdle
  /\ ConfigIdle

\* The caller of GenerateUISchema writes one entry into the ui:options map
\* of the result it was given. Where that map is the field's Config map
\* (optionsAreConfig), the write is a write to the Form.
WriteToResult ==
  /\ "GenerateUISchema" \in done
  /\ "WriteToResult" \notin done
  /\ \E i \in 1..Len(form.Fields) :
       LET name == form.Fields[i].Name
       IN /\ name \in DOMAIN uiSchema
          /\ "ui:options" \in DOMAIN uiSchema[name]
          /\ uiSchema' = [uiSchema EXCEPT ![name] =
                            Put(@, "ui:options",
                                Put(@["ui:options"], "seen", 1))]
          /\ form' = IF optionsAreConfig(form.Fields[i])
                       THEN [form EXCEPT !.Fields[i].Config =
                               Put(@, "seen", 1)]
                     ELSE form
  /\ done' = done \cup {"WriteToResult"}
  /\ UNCHANGED <<field, value, fieldOutcome, data, formOutcome, jsonSchema>>
  /\ UNCHANGED <<rvars, xvars>>

NextProject ==
  CallGenerateJSONSchema \/ CallGenerateUISchema \/ WriteToResult

SpecProject == InitProject /\ [][NextProject]_vars

\* ------------------------------------------------------ the mapper at work
\* member names
MemberNames ==
  { <<"U", "s", "e", "r", "E", "m", "a", "i", "l">>,
    <<"E", "M", "A", "I", "L">>,
    <<"E", "m", "a", "i">>,
    <<"P", "a", "s", "s", "W", "o", "r", "d">>,
    <<"E", "m", "a", "i", "l", "P", "a", "s", "s", "w", "o", "r", "d">>,
    <<"P", "a", "s", "s", "w", "o", "r", "d", "E", "m", "a", "i", "l">>,
    <<"N", "a", "m", "e">>,
    <<"A", "g", "e">> }

\* reflect kinds a member can have
BoolKinds == {"bool"}
IntKinds == {"int", "int8", "int16", "int32", "int64",
             "uint", "uint8", "uint16", "uint32", "uint64"}
FloatKinds == {"float32", "float64"}
\* the kinds outside the case lists of getFieldType; uintptr and the complex
\* kinds are among them
OtherKinds == {"slice", "map", "struct", "ptr", "interface", "uintptr",
               "complex128"}
MemberKinds ==
  BoolKinds \cup IntKinds \cup FloatKinds \cup {"string"} \cup OtherKinds

\* type tags: absent, the recognized ones, and some that are not recognized
MemberTypeTags == {""} \cup TypeTags \cup {"text", "table", "Email", "color"}

\* the member FromStruct is watched on
ProbeMembers ==
  { MkStructField(name, kind, <<>>, <<>>, typeTag, "", TRUE) :
      name \in MemberNames, kind \in MemberKinds, typeTag \in MemberTypeTags }
  \cup
  { MkStructField(name, kind, formTag, labelTag, typeTag, requiredTag, TRUE) :
      name \in MemberNames, kind \in {"string", "int"},
      formTag \in {<<>>, <<"x">>}, labelTag \in {<<>>, <<"L">>},
      typeTag \in {"", "email"},
      requiredTag \in {"", "true", "1", "yes"} }

\* an unexported member, which FromStruct skips
HiddenMember ==
  MkStructField(<<"s", "e", "c", "r", "e", "t">>, "string", <<>>, <<>>, "",
                "", FALSE)

\* members of the struct types that vary in length and order
OrderMembers ==
  { MkStructField(<<"N", "a", "m", "e">>, "string", <<>>, <<>>, "", "", TRUE),
    MkStructField(<<"A", "g", "e">>, "int", <<>>, <<>>, "", "1", TRUE),
    MkStructField(<<"M", "a", "i", "l">>, "string", <<>>, <<>>, "email", "",
                  TRUE),
    HiddenMember }

\* the values handed to FromStruct: structs with an unexported member before
\* the watched one, structs of up to MaxMembers members in any order, and a
\* value that is no struct
StructTypes ==
  { [kind |-> "struct", members |-> <<HiddenMember, m>>] : m \in ProbeMembers }
  \cup { [kind |-> "struct", members |-> ms] :
           ms \in SeqsUpTo(OrderMembers, MaxMembers) }
  \cup { [kind |-> "string", members |-> <<>>] }

InitMapper ==
  /\ structType \in StructTypes
  /\ mapped = <<>>
  /\ RouterIdle
  /\ FormIdle
  /\ AdminIdle
  /\ BuilderIdle
  /\ ProjectIdle
  /\ ConfigIdle

\* fb := form.FromStruct("form", "Form", v) or form.FromStruct("form",
\* "Form", &v)
CallFromStruct ==
  /\ Len(mapped) < MaxMaps
  /\ \E viaPtr \in BOOLEAN :
       LET passed == IF viaPtr
                       THEN [structType EXCEPT !.kind = "ptr to " \o @]
                     ELSE structType
       IN mapped' = Append(mapped,
                           [form |-> FromStruct("form", "Form", passed),
                            viaPtr |-> viaPtr, changed |-> FALSE])
  /\ UNCHANGED structType
  /\ UNCHANGED <<fvars, rvars, avars, bvars, pvars, cvars>>

\* fb.AddEmailField("contact", "Contact") on one of the builders FromStruct
\* returned; each FromStruct call made its own Form and its own fields
MapperAddEmailField ==
  /\ \E i \in 1..Len(mapped) :
       /\ ~mapped[i].changed
       /\ mapped' = [mapped EXCEPT
                       ![i].form = FormBuilder_AddEmailField(@, "contact",
                                                             "Contact"),
                       ![i].changed = TRUE]
  /\ UNCHANGED structType
  /\ UNCHANGED <<fvars, rvars, avars, bvars, pvars, cvars>>

NextMapper == CallFromStruct \/ MapperAddEmailField

SpecMapper == InitMapper /\ [][NextMapper]_vars

\* ------------------------------------------------- configuration at work
InitConfig ==
  /\ admRouter = NewRouter
  /\ setters = <<>>
  /\ handler = NoHandler
  /\ RouterIdle
  /\ FormIdle
  /\ AdminIdle
  /\ BuilderIdle
  /\ ProjectIdle
  /\ MapperIdle

Middlewares == {"mwA", "mwB"}

\* a setter can be called: Handler() was not yet, and calls remain
CanSet == ~handler.returned /\ Len(setters) < MaxSetters

\* a.SetTitle("My Admin")
CallSetTitle ==
  /\ CanSet
  /\ admRouter' = Router_SetTitle(admRouter, "My Admin")
  /\ setters' = Append(setters, <<"SetTitle", "My Admin">>)
  /\ UNCHANGED handler
  /\ UNCHANGED <<fvars, rvars, avars, bvars, pvars, mvars>>

\* a.EnableAuth(enabled)
CallEnableAuth ==
  /\ CanSet
  /\ \E enabled \in BOOLEAN :
       /\ admRouter' = Router_EnableAuth(admRouter, enabled)
       /\ setters' = Append(setters, <<"EnableAuth", enabled>>)
  /\ UNCHANGED handler
  /\ UNCHANGED <<fvars, rvars, avars, bvars, pvars, mvars>>

\* a.EnableCORS(enabled)
CallEnableCORS ==
  /\ CanSet
  /\ \E enabled \in BOOLEAN :
       /\ admRouter' = Router_EnableCORS(admRouter, enabled, <<>>)
       /\ setters' = Append(setters, <<"EnableCORS", enabled>>)
  /\ UNCHANGED handler
  /\ UNCHANGED <<fvars, rvars, avars, bvars, pvars, mvars>>

\* a.AddMiddleware(mw)
CallAddMiddleware ==
  /\ CanSet
  /\ \E mw \in Middlewares :
       /\ admRouter' = Router_AddMiddleware(admRouter, mw)
       /\ setters' = Append(setters, <<"AddMiddleware", mw>>)
  /\ UNCHANGED handler
  /\ UNCHANGED <<fvars, rvars, avars, bvars, pvars, mvars>>

\* a.Handler() of an Admin without storage
CallHandler ==
  /\ ~handler.returned
  /\ handler' = [returned |-> TRUE, mux |-> Router_Handler(admRouter)]
  /\ UNCHANGED <<admRouter, setters>>
  /\ UNCHANGED <<fvars, rvars, avars, bvars, pvars, mvars>>

NextConfig ==
  \/ CallSetTitle
  \/ CallEnableAuth
  \/ CallEnableCORS
  \/ CallAddMiddleware
  \/ CallHandler

SpecConfig == InitConfig /\ [][NextConfig]_vars

\* ================================================================== claims
\* an empty value in the words of the specification: null, an all-whitespace
\* string, or an empty list
EmptyValue(v) ==
  \/ v = Nil
  \/ v.t = "string" /\ \A i \in 1..Len(v.s) : v.s[i] \in {" ", "\t", "\n", "\r"}
  \/ v.t = "[]interface{}" /\ v.n = 0

\* the payload lacks the field's key or holds an empty value under it
EmptyInPayload(f, d) == f.Name \notin DOMAIN d \/ EmptyValue(d[f.Name])

\* C1: a required field with an empty value is rejected with the
\* missing-required error by ValidateField, and by validateFormData when the
\* key is absent or its value empty, whatever its rules are and before any of
\* them is evaluated.
C1_RequiredEmptyRejected ==
  /\ ("ValidateField" \in done /\ field.Required /\ EmptyValue(value))
       => fieldOutcome = MkOutcome(TypeErr("required"), <<>>)
  /\ ("validateFormData" \in done /\ form.Fields = <<field>>
        /\ field.Required /\ EmptyInPayload(field, data))
       => formOutcome = MkFormOutcome(TypeErr("required"), field.Label, <<>>)

C1_Witness ==
  /\ done = {"ValidateField", "validateFormData"}
  /\ field.Required
  /\ value = Str(<<" ", " ">>)
  /\ data = Put(EmptyMap, field.Name, value)
  /\ Len(field.Validation) = MaxRules
  /\ fieldOutcome.err = TypeErr("required")
  /\ formOutcome.err = TypeErr("required")

\* C2: an optional field with an empty value (or an absent key) is accepted
\* by both entry points without evaluating any rule, even a rule the value
\* would fail or whose parameter is malformed.
C2_OptionalEmptyAccepted ==
  /\ ("ValidateField" \in done /\ ~field.Required /\ EmptyValue(value))
       => fieldOutcome = MkOutcome(NoErr, <<>>)
  /\ ("validateFormData" \in done /\ form.Fields = <<field>>
        /\ ~field.Required /\ EmptyInPayload(field, data))
       => formOutcome = MkFormOutcome(NoErr, "", <<>>)

C2_Witness ==
  /\ done = {"ValidateField", "validateFormData"}
  /\ ~field.Required
  /\ value = Str(<<" ">>)
  /\ data = Put(EmptyMap, field.Name, value)
  /\ field.Validation = << MkRule("pattern", Str(<<"(">>), ""),
                           MkRule("minLength", Num("int", 5, 0), "") >>
  /\ fieldOutcome.err = NoErr
  /\ formOutcome.err = NoErr

\* the kinds of error that report a failed rule with its default text
RuleKinds == {"email", "min", "max", "minLength", "maxLength", "pattern"}

\* the indices of the rules of f that return an error for v
FailingRules(f, v) ==
  {i \in 1..Len(f.Validation) : validateRule(v, f.Validation[i]) # NoErr}

\* C3: for a non-empty value ValidateField evaluates the rules in declared
\* order up to and including the first one that fails and returns that
\* rule's error: the custom message if the rule has one, else the default of
\* the rule's kind; it returns nil only if every rule passes.
C3_FirstFailingRuleWins ==
  ("ValidateField" \in done /\ ~EmptyValue(value)) =>
    LET failing == FailingRules(field, value)
    IN IF failing = {}
         THEN fieldOutcome =
                MkOutcome(NoErr, [i \in 1..Len(field.Validation) |-> i])
       ELSE
         LET first == CHOOSE i \in failing : \A j \in failing : i <= j
             rule == field.Validation[first]
         IN /\ fieldOutcome.ev = [i \in 1..first |-> i]
            /\ fieldOutcome.err = validateRule(value, rule)
            /\ fieldOutcome.err # NoErr
            /\ fieldOutcome.err.k \in RuleKinds \cup {"custom"} =>
                 IF rule.Message # ""
                   THEN fieldOutcome.err = CustomErr(rule.Message)
                 ELSE fieldOutcome.err.k = rule.Type

C3_Witness ==
  /\ "ValidateField" \in done
  /\ value = Str(<<"a", "b">>)
  /\ field.Validation = << MkRule("minLength", Num("int", 5, 0), ""),
                           MkRule("pattern", Str(DigitsPattern), "") >>
  /\ fieldOutcome =
       MkOutcome(DefaultErr("minLength", MkFloat(5, 0)), <<1>>)

\* C4: ValidateField accepts a value for a field exactly when
\* validateFormData accepts the payload holding that value under the field's
\* name, for a form with only that field.
C4_EntryPointsAgree ==
  (done = {"ValidateField", "validateFormData"}
     /\ form.Fields = <<field>> /\ data = Put(EmptyMap, field.Name, value))
    => (fieldOutcome.err = NoErr <=> formOutcome.err = NoErr)

\* the names in a sequence of strings
Range(q) == {q[i] : i \in 1..Len(q)}

UniqueNames(f) ==
  \A i, j \in 1..Len(f.Fields) :
    f.Fields[i].Name = f.Fields[j].Name => i = j

HiddenNames(f) ==
  {f.Fields[i].Name : i \in {j \in 1..Len(f.Fields) :
                               f.Fields[j].Type = FieldTypeHidden}}

\* C6: in a form with unique field names, the name of a hidden field is no
\* key of the presentation schema's properties, is not in its required
\* list, and is not in the UI schema's ui:order, even when the hidden field
\* is required.
C6_HiddenNeverProjected ==
  UniqueNames(form) =>
    /\ "GenerateJSONSchema" \in done =>
         /\ HiddenNames(form) \cap DOMAIN jsonSchema.Properties = {}
         /\ HiddenNames(form) \cap Range(jsonSchema.Required) = {}
    /\ "GenerateUISchema" \in done =>
         HiddenNames(form) \cap Range(uiSchema["ui:order"]) = {}

C6_Witness ==
  /\ {"GenerateJSONSchema", "GenerateUISchema"} \subseteq done
  /\ Len(form.Fields) = 2
  /\ form.Fields[1].Type = FieldTypeHidden /\ form.Fields[1].Required
  /\ form.Fields[1].Name = "a"
  /\ form.Fields[2].Type = FieldTypeText /\ form.Fields[2].Required
  /\ form.Fields[2].Name = "b"
  /\ DOMAIN jsonSchema.Properties = {"b"}
  /\ uiSchema["ui:order"] = <<"b">>

\* C7: the required list of the presentation schema is, as a set, the set
\* of the names of the fields that are required and not hidden.
C7_RequiredRoundTrip ==
  "GenerateJSONSchema" \in done =>
    Range(jsonSchema.Required) =
      {form.Fields[i].Name :
         i \in {j \in 1..Len(form.Fields) :
                  /\ form.Fields[j].Required
                  /\ form.Fields[j].Type # FieldTypeHidden}}

C7_Witness ==
  /\ "GenerateJSONSchema" \in done
  /\ Len(form.Fields) = 2
  /\ form.Fields[1].Type = FieldTypeHidden /\ form.Fields[1].Required
  /\ form.Fields[2].Type = FieldTypeNumber /\ form.Fields[2].Required
  /\ form.Fields[1].Name # form.Fields[2].Name
  /\ jsonSchema.Required = <<form.Fields[2].Name>>

\* the payload holds, for each property of the presentation schema and for
\* no other name, a non-empty value that passes the rules of that field
SatisfiesPresentation(f, schema, d) ==
  /\ DOMAIN d = DOMAIN schema.Properties
  /\ \A i \in 1..Len(f.Fields) :
       f.Fields[i].Name \in DOMAIN d =>
         /\ ~EmptyValue(d[f.Fields[i].Name])
         /\ Router_applyRules(d[f.Fields[i].Name],
                              f.Fields[i].Validation, i, 1).err = NoErr

\* C8: validateFormData accepts every payload that satisfies the
\* presentation schema, whatever hidden fields the form has.
C8_HiddenNeverValidated ==
  ({"GenerateJSONSchema", "validateFormData"} \subseteq done
     /\ UniqueNames(form)
     /\ SatisfiesPresentation(form, jsonSchema, data))
    => formOutcome.err = NoErr

\* the names registered by the first k entries of a registration log
NamesIn(log, k) == {log[i].Name : i \in 1..k}

\* the entry most recently registered under name among the first k entries
Latest(log, name, k) ==
  log[CHOOSE i \in 1..k :
        /\ log[i].Name = name
        /\ \A j \in 1..k : log[j].Name = name => j <= i]

\* the positions of the steps of the last request that invoked a handler
HandlerSteps == {i \in 1..Len(calls) : calls[i][1] \in {"OnGet", "OnPost", "Handler"}}

\* C5: a submission invokes the form's OnPost at most once, and only after
\* the body decoded and validateFormData accepted the payload; when decoding
\* or validation fails OnPost is not invoked and the response is an error;
\* a form without OnPost is refused before its body is decoded or validated.
C5_SubmitOnlyAfterValidation ==
  (resp.op = "POST form" /\ resp.name \in NamesIn(formLog, resp.formsAt)) =>
    LET f == Latest(formLog, resp.name, resp.formsAt)
        accepted == /\ resp.body.ok
                    /\ validateFormData(f, resp.body.data).err = NoErr
        posts == {i \in 1..Len(calls) : calls[i][1] = "OnPost"}
    IN /\ Cardinality(posts) <= 1
       /\ \A i \in posts :
            /\ accepted
            /\ calls[i] = <<"OnPost", f.OnPost>>
            /\ \E j \in 1..(i - 1) : calls[j][1] = "validateFormData"
            /\ \E j \in 1..(i - 1) : calls[j][1] = "json.Decode"
       /\ (f.OnPost # "nil" /\ ~accepted) =>
            posts = {} /\ resp.status = 400
       /\ f.OnPost = "nil" => calls = <<>> /\ resp.status = 405

C5_Witness ==
  /\ resp.op = "POST form"
  /\ resp.name = "users"
  /\ resp.body = MkBody(TRUE, Put(EmptyMap, "name", Str(<<"a", "b">>)))
  /\ resp.status = 200
  /\ calls = << <<"json.Decode", "">>, <<"validateFormData", "">>,
                <<"OnPost", "post2">> >>

\* C9: the registry holds one form per registered name, the one registered
\* last under it, and likewise one page per name; the form list served has
\* one entry per distinct name registered before the request.
C9_LastRegistrationWins ==
  /\ DOMAIN forms = NamesIn(formLog, Len(formLog))
  /\ \A n \in DOMAIN forms : forms[n] = Latest(formLog, n, Len(formLog))
  /\ DOMAIN pages = NamesIn(pageLog, Len(pageLog))
  /\ \A n \in DOMAIN pages : pages[n] = Latest(pageLog, n, Len(pageLog))
  /\ resp.op = "GET forms" =>
       /\ DOMAIN resp.data = NamesIn(formLog, resp.formsAt)
       /\ \A n \in DOMAIN resp.data :
            resp.data[n] = Latest(formLog, n, resp.formsAt).Title

C9_Witness ==
  /\ Len(formLog) = 3
  /\ formLog[1].Name = "users" /\ formLog[1].Title = "First"
  /\ formLog[2].Name = "posts"
  /\ formLog[3].Name = "users" /\ formLog[3].Title = "Third"
  /\ forms["users"].Title = "Third"
  /\ resp.op = "GET forms" /\ resp.formsAt = 3
  /\ Cardinality(DOMAIN resp.data) = 2

\* C10: a form GET, a form POST or a page GET for a name that was never
\* registered is answered with not-found and invokes no handler.
C10_UnknownNameNotFound ==
  /\ (resp.op \in {"GET form", "POST form"}
        /\ resp.name \notin NamesIn(formLog, resp.formsAt))
       => resp.status = 404 /\ HandlerSteps = {}
  /\ (resp.op = "GET page" /\ resp.name \notin NamesIn(pageLog, resp.pagesAt))
       => resp.status = 404 /\ HandlerSteps = {}

C10_Witness ==
  /\ resp.op = "GET form"
  /\ resp.name = "posts"
  /\ resp.formsAt >= 1
  /\ \A i \in 1..resp.formsAt :
       formLog[i].Name = "users" /\ formLog[i].OnGet # "nil"
  /\ resp.pagesAt >= 1
  /\ resp.status = 404
  /\ calls = <<>>

\* C11: Admin.RegisterForm and Admin.RegisterPage put the form or page into
\* the registry and return without error whether no storage is attached,
\* SaveRoute succeeds or SaveRoute fails; the registry is written before
\* SaveRoute is attempted, and no registration is ever lost.
C11_RegistrationSurvivesStorage ==
  /\ DOMAIN forms = NamesIn(formLog, Len(formLog))
  /\ \A n \in DOMAIN forms : forms[n] = Latest(formLog, n, Len(formLog))
  /\ DOMAIN pages = NamesIn(pageLog, Len(pageLog))
  /\ \A n \in DOMAIN pages : pages[n] = Latest(pageLog, n, Len(pageLog))
  /\ adminCall.op # "none" =>
       /\ adminCall.err = NoErr
       /\ adminCall.steps[1] = "router." \o adminCall.op
       /\ \A i \in 1..Len(adminCall.steps) :
            adminCall.steps[i] = "storage.SaveRoute" => i = 2
       /\ adminCall.storage # "nil" => Len(adminCall.steps) = 2

\* a form was registered while the attached storage refused its route
C11_Witness ==
  /\ adminCall.storage = "attached"
  /\ adminCall.saveFails
  /\ adminCall.op = "RegisterForm"
  /\ adminCall.steps = <<"router.RegisterForm", "storage.SaveRoute">>
  /\ routes = <<>>
  /\ Len(formLog) = 2
  /\ forms[adminCall.arg.Name] = adminCall.arg

\* C12: when Build is called while a table sub-builder obtained from
\* AddTableField has not been finalized into the builder, Build panics
\* instead of returning a Form that lacks the table field.
C12_UnfinalizedTablePanics ==
  (built.handed /\ built.open > 0) => built.panicked

\* C13: the Form that Build returned stays as it was when it was returned,
\* whatever is called afterwards on the builder or on a sub-builder already
\* finalized into it. The caller holds fb.form itself.
C13_BuiltFormImmutable ==
  built.handed => fbForm = built.form

\* a field without its table configuration
Untabled(fld) == [fld EXCEPT !.TableConfig = NilTableConfig]

\* the names of the fields of log that are not hidden, in order
VisibleNames(log) ==
  LET visible == SelectSeq(log, LAMBDA fld : fld.Type # FieldTypeHidden)
  IN [i \in 1..Len(visible) |-> visible[i].Name]

\* C14: Form.Fields is the sequence of added fields in call order and
\* Form.Groups the sequence of added groups in call order; ui:order is the
\* subsequence of the field names without the hidden fields; ui:groups is
\* present only when groups were declared and lists them in declared order.
C14_CallOrderPreserved ==
  LET ui == GenerateUISchema(fbForm)
  IN /\ Len(fbForm.Fields) = Len(blog.fields)
     /\ \A i \in 1..Len(fbForm.Fields) :
          Untabled(fbForm.Fields[i]) = Untabled(blog.fields[i])
     /\ fbForm.Groups = blog.groups
     /\ ui["ui:order"] = VisibleNames(blog.fields)
     /\ ("ui:groups" \in DOMAIN ui) <=> (blog.groups # <<>>)
     /\ "ui:groups" \in DOMAIN ui =>
          /\ Len(ui["ui:groups"]) = Len(blog.groups)
          /\ \A i \in 1..Len(blog.groups) :
               /\ ui["ui:groups"][i]["ui:title"] = blog.groups[i].Title
               /\ ui["ui:groups"][i]["ui:fields"] = blog.groups[i].Fields

\* a built form whose first field is hidden and second is not, with a group
C14_Witness ==
  /\ built.handed
  /\ Len(fbForm.Fields) = 2
  /\ fbForm.Fields[1].Type = FieldTypeHidden
  /\ fbForm.Fields[2].Type # FieldTypeHidden
  /\ Len(fbForm.Groups) = 1
  /\ GenerateUISchema(fbForm)["ui:order"] = <<fbForm.Fields[2].Name>>

\* C15: the projectors leave the Form as it was, and what they return
\* shares nothing with it: neither a projection nor a write by the caller
\* into a returned schema changes the Form, and the presentation schema
\* projected from the Form is the same before and after.
C15_ProjectionsPure ==
  /\ form = form0
  /\ jsonSchema # NoSchema => jsonSchema = GenerateJSONSchema(form)

\* C16: in the UI schema of a field, every option the projector derived for
\* the field keeps its derived value when the field's Config is merged in.
C16_ConfigNeverOverwrites ==
  "GenerateUISchema" \in done =>
    \A i \in 1..Len(form0.Fields) :
      LET fld == form0.Fields[i]
          derived == fieldUIBeforeConfig(fld)
      IN "ui:options" \in DOMAIN derived =>
           \A k \in DOMAIN derived["ui:options"] :
             /\ k \in DOMAIN uiSchema[fld.Name]["ui:options"]
             /\ uiSchema[fld.Name]["ui:options"][k] = derived["ui:options"][k]

\* the schema keyword a rule kind is projected to
KeywordOf ==
  [min |-> "minimum", max |-> "maximum", minLength |-> "minLength",
   maxLength |-> "maxLength", pattern |-> "pattern"]

\* the validation engine accepts the rule's parameter
EngineAccepts(rule) ==
  CASE rule.Type \in {"min", "max"} -> ~IsErr(toFloat64(rule.Value).err)
    [] rule.Type \in {"minLength", "maxLength"} ->
         ~IsErr(toInt(rule.Value).err)
    [] rule.Type = "pattern" ->
         IsString(rule.Value) /\ regexpCompileOk(rule.Value.s)
    [] OTHER -> FALSE

\* the bound the keyword of an accepted rule must carry
BoundOf(rule) ==
  CASE rule.Type \in {"min", "max"} -> toFloat64(rule.Value).f
    [] rule.Type \in {"minLength", "maxLength"} -> toInt(rule.Value).f.m
    [] OTHER -> rule.Value.s

\* C17: every min, max, minLength, maxLength or pattern rule whose
\* parameter the validation engine accepts appears in the field's
\* presentation schema as the matching keyword with that bound.
C17_AcceptedRulesProjected ==
  "GenerateJSONSchema" \in done =>
    \A i \in 1..Len(form0.Fields) :
      LET fld == form0.Fields[i]
      IN fld.Name \in DOMAIN jsonSchema.Properties =>
           \A r \in 1..Len(fld.Validation) :
             EngineAccepts(fld.Validation[r]) =>
               LET kw == KeywordOf[fld.Validation[r].Type]
                   s == jsonSchema.Properties[fld.Name]
               IN /\ kw \in DOMAIN s
                  /\ s[kw] = BoundOf(fld.Validation[r])

TableProperties == {"columns", "rows", "total", "page", "limit"}

ShapeOf ==
  [text |-> <<"string", "">>, textarea |-> <<"string", "">>,
   email |-> <<"string", "email">>, password |-> <<"string", "password">>,
   date |-> <<"string", "date">>, time |-> <<"string", "time">>,
   file |-> <<"string", "data-url">>, number |-> <<"number", "">>,
   checkbox |-> <<"boolean", "">>]

\* C19: the presentation schema of a field has the primitive shape of its
\* FieldType: the type and format of ShapeOf; for single radio/select a
\* string with enum the option values in order; for multiple radio/select an
\* array with uniqueItems whose items are strings with that enum; and the
\* default value, when the field has one.
C19_PrimitiveShapes ==
  "GenerateJSONSchema" \in done =>
    \A i \in 1..Len(form0.Fields) :
      LET fld == form0.Fields[i]
          s == jsonSchema.Properties[fld.Name]
          values == [j \in 1..Len(fld.Options) |-> fld.Options[j].Value]
      IN /\ fld.Type \in DOMAIN ShapeOf =>
              /\ s["type"] = ShapeOf[fld.Type][1]
              /\ IF ShapeOf[fld.Type][2] = "" THEN "format" \notin DOMAIN s
                 ELSE /\ "format" \in DOMAIN s
                      /\ s["format"] = ShapeOf[fld.Type][2]
              /\ "enum" \notin DOMAIN s
         /\ (fld.Type \in {FieldTypeRadio, FieldTypeSelect} /\ ~fld.Multiple) =>
              /\ s["type"] = "string"
              /\ s["enum"] = values
              /\ "items" \notin DOMAIN s
         /\ (fld.Type \in {FieldTypeRadio, FieldTypeSelect} /\ fld.Multiple) =>
              /\ s["type"] = "array"
              /\ s["uniqueItems"] = TRUE
              /\ s["items"] = [type |-> "string", enum |-> values]
              /\ "enum" \notin DOMAIN s
         /\ fld.Type # FieldTypeHidden =>
              IF fld.DefaultValue # Nil
                THEN "default" \in DOMAIN s /\ s["default"] = fld.DefaultValue
              ELSE "default" \notin DOMAIN s

\* a multiple select with two options and a default value has been projected
C19_Witness ==
  /\ "GenerateJSONSchema" \in done
  /\ form0.Fields[1].Type = FieldTypeSelect
  /\ form0.Fields[1].Multiple
  /\ Len(form0.Fields[1].Options) = 2
  /\ form0.Fields[1].DefaultValue # Nil
  /\ jsonSchema.Properties["f"]["items"]["enum"] = <<"x", "y">>

\* name holds sub somewhere, letter case aside
ContainsFold(name, sub) ==
  \E i \in 0..(Len(name) - Len(sub)) :
    \A j \in 1..Len(sub) : strings_ToLower(<<name[i + j]>>) = <<sub[j]>>

\* the field type the resolution order gives a member: a type tag of the
\* lookup table first, then the native type
ResolvedType(m) ==
  IF m.Tag.type \in TypeTags THEN m.Tag.type
  ELSE IF m.Kind \in BoolKinds THEN "checkbox"
  ELSE IF m.Kind \in IntKinds \cup FloatKinds THEN "number"
  ELSE IF m.Kind = "string"
    THEN IF ContainsFold(m.Name, <<"e", "m", "a", "i", "l">>) THEN "email"
         ELSE IF ContainsFold(m.Name,
                   <<"p", "a", "s", "s", "w", "o", "r", "d">>)
           THEN "password"
         ELSE "text"
  ELSE "text"

\* the exported members of the struct type, in declaration order
Exported == SelectSeq(structType.members, LAMBDA m : m.IsExported)

\* the fields FromStruct gave the i-th Form: all of them but the one the
\* caller added afterwards
MappedFields(i) ==
  SubSeq(mapped[i].form.Fields, 1,
         Len(mapped[i].form.Fields) - (IF mapped[i].changed THEN 1 ELSE 0))

LowerCased(low, up) ==
  /\ Len(low) = Len(up)
  /\ \A j \in 1..Len(up) :
       \/ low[j] = up[j] /\ \A k \in 1..Len(UpperLetters) :
                              UpperLetters[k] # up[j]
       \/ \E k \in 1..Len(UpperLetters) :
            UpperLetters[k] = up[j] /\ LowerLetters[k] = low[j]

\* C21: the field of an exported member is named by the form tag if present,
\* else by the lower-cased member name; labelled by the label tag if present,
\* else by the member name as written; and required exactly when the
\* required tag is "true" or "1".
C21_NameLabelRequired ==
  \A i \in 1..Len(mapped) :
    \A k \in 1..Len(MappedFields(i)) :
      LET m == Exported[k]
          fld == MappedFields(i)[k]
      IN /\ IF m.Tag.form # <<>> THEN fld.Name = m.Tag.form
            ELSE LowerCased(fld.Name, m.Name)
         /\ fld.Label = (IF m.Tag.label # <<>> THEN m.Tag.label ELSE m.Name)
         /\ fld.Required <=> m.Tag.required \in {"true", "1"}

\* a member with required:"1" and a label tag but no form tag has been mapped
C21_Witness ==
  /\ Len(mapped) > 0
  /\ Len(Exported) = 1
  /\ Exported[1].Tag.required = "1"
  /\ Exported[1].Tag.label # <<>>
  /\ Exported[1].Tag.form = <<>>
  /\ mapped[1].form.Fields[1].Required
  /\ mapped[1].form.Fields[1].Name # Exported[1].Name

EmailRules(fld) ==
  Cardinality({r \in 1..Len(fld.Validation) : fld.Validation[r].Type = "email"})

\* C24: every email field that FromStruct or AddEmailField made carries
\* exactly one email rule, and FromStruct gives no email rule to a field of
\* another type.
C24_OneEmailRule ==
  \A i \in 1..Len(mapped) :
    \A k \in 1..Len(mapped[i].form.Fields) :
      LET fld == mapped[i].form.Fields[k]
      IN IF fld.Type = FieldTypeEmail THEN EmailRules(fld) = 1
         ELSE EmailRules(fld) = 0

\* a Form with an email field from FromStruct, a field of another type, and
\* an email field from AddEmailField
C24_Witness ==
  /\ Len(mapped) > 0
  /\ mapped[1].changed
  /\ Len(mapped[1].form.Fields) = 3
  /\ mapped[1].form.Fields[1].Type = FieldTypeEmail
  /\ mapped[1].form.Fields[2].Type # FieldTypeEmail
  /\ mapped[1].form.Fields[3].Type = FieldTypeEmail

\* C25: in every Form of the builder, a field has a table configuration
\* exactly when its type is table.
C25_TableConfigIffTable ==
  \A k \in 1..Len(fbForm.Fields) :
    (~fbForm.Fields[k].TableConfig.isNil) <=>
      (fbForm.Fields[k].Type = FieldTypeTable)

\* old and new differ at most in member attr of the last column, which holds
\* v if there is a last column
OnlyLastColumn(old, new, attr, v) ==
  /\ \A a \in DOMAIN old \ {"Columns"} : new[a] = old[a]
  /\ Len(new.Columns) = Len(old.Columns)
  /\ \A c \in 1..Len(old.Columns) : \A a \in DOMAIN old.Columns[c] :
       (c < Len(old.Columns) \/ a # attr) =>
         new.Columns[c][a] = old.Columns[c][a]
  /\ Len(old.Columns) > 0 => new.Columns[Len(old.Columns)][attr] = v

\* old and new differ at most in the table-level option opt, which holds v
OnlyOption(old, new, opt, v) ==
  /\ \A a \in DOMAIN old \ {opt} : new[a] = old[a]
  /\ new[opt] = v

\* the step leaves every sub-builder but one alone, and that one's table
\* configuration before and after satisfies Frame
EachTable(Frame(_, _)) ==
  /\ Len(tfbs') = Len(tfbs)
  /\ \E k \in 1..Len(tfbs) :
       /\ Frame(tfbs[k].field.TableConfig, tfbs'[k].field.TableConfig)
       /\ \A j \in 1..Len(tfbs) : j # k => tfbs'[j] = tfbs[j]

\* C30: WithSortable, WithFilterable, WithWidth and WithAlign change only
\* their attribute of the column added last and nothing when there is no
\* column; WithPagination, WithPageSize, WithSelectable and WithEditable
\* change only their own option; a new sub-builder starts with no column,
\* pagination and sortable and filterable on, page size 10, selectable and
\* editable off.
C30_SettersFrame ==
  [][ /\ TWithSortable =>
           EachTable(LAMBDA o, n : OnlyLastColumn(o, n, "Sortable", TRUE))
      /\ TWithFilterable =>
           EachTable(LAMBDA o, n : OnlyLastColumn(o, n, "Filterable", TRUE))
      /\ TWithWidth =>
           EachTable(LAMBDA o, n : OnlyLastColumn(o, n, "Width", "100px"))
      /\ TWithAlign =>
           EachTable(LAMBDA o, n : OnlyLastColumn(o, n, "Align", "center"))
      /\ TWithPagination =>
           EachTable(LAMBDA o, n : OnlyOption(o, n, "Pagination", FALSE))
      /\ TWithPageSize =>
           EachTable(LAMBDA o, n : OnlyOption(o, n, "PageSize", 25))
      /\ TWithSelectable =>
           EachTable(LAMBDA o, n : OnlyOption(o, n, "Selectable", TRUE))
      /\ TWithEditable =>
           EachTable(LAMBDA o, n : OnlyOption(o, n, "Editable", TRUE))
      /\ BAddTableField =>
           tfbs'[Len(tfbs')].field.TableConfig =
             [isNil |-> FALSE, Columns |-> <<>>, Pagination |-> TRUE,
              PageSize |-> 10, Sortable |-> TRUE, Filterable |-> TRUE,
              Selectable |-> FALSE, Editable |-> FALSE]
    ]_vars

\* WithSortable was called on a sub-builder of two columns: the second is
\* sortable and the first is not
C30_Witness ==
  /\ Len(tfbs) > 0
  /\ Len(tfbs[1].field.TableConfig.Columns) = 2
  /\ tfbs[1].field.TableConfig.Columns[2].Sortable
  /\ ~tfbs[1].field.TableConfig.Columns[1].Sortable

\* the number a numeric value or a decimal string denotes
Denotes(v) == IF IsString(v) THEN ParseFloat(v.s) ELSE MkFloat(v.m, v.d)

\* the values toFloat64 turns into a number
Coercible(v) ==
  \/ v.t \in {"float64", "float32", "int", "int32", "int64"}
  \/ IsString(v) /\ ParseFloatOk(v.s)

\* ValidateField has run on a value that is not empty and reached the first
\* rule, which is of one of the kinds
FirstRuleRan(kinds) ==
  /\ "ValidateField" \in done
  /\ ~isEmpty(value)
  /\ Len(field.Validation) > 0
  /\ field.Validation[1].Type \in kinds

\* what a rule reports when the value breaks it
RuleFailure(rule, kind, bound) ==
  IF rule.Message # "" THEN CustomErr(rule.Message)
  ELSE DefaultErr(kind, bound)

\* C26: a min rule rejects a value exactly when the number it denotes is
\* below the number the bound denotes, a max rule exactly when it is above,
\* so a value equal to the bound passes; "150" under [min(0), max(120)]
\* passes min and fails max with the default message citing 120.
C26_MinMaxCompareNumbers ==
  /\ FirstRuleRan({"min", "max"}) =>
       LET rule == field.Validation[1]
           broken == IF rule.Type = "min"
                       THEN FloatLess(Denotes(value), Denotes(rule.Value))
                     ELSE FloatLess(Denotes(rule.Value), Denotes(value))
       IN (Coercible(value) /\ Coercible(rule.Value)) =>
            /\ broken =>
                 fieldOutcome =
                   MkOutcome(RuleFailure(rule, rule.Type,
                                         Denotes(rule.Value)), <<1>>)
            /\ (~broken /\ Len(field.Validation) = 1) =>
                 ~IsErr(fieldOutcome.err)
  /\ ( /\ "ValidateField" \in done
       /\ value = Str(<<"1", "5", "0">>)
       /\ field.Validation = << MkRule("min", Num("int", 0, 0), ""),
                                MkRule("max", Num("int", 120, 0), "") >> )
       => fieldOutcome =
            MkOutcome(DefaultErr("max", MkFloat(120, 0)), <<1, 2>>)

\* "150" was validated under [min(0), max(120)] and max rejected it
C26_Witness ==
  /\ "ValidateField" \in done
  /\ value = Str(<<"1", "5", "0">>)
  /\ field.Validation = << MkRule("min", Num("int", 0, 0), ""),
                           MkRule("max", Num("int", 120, 0), "") >>
  /\ fieldOutcome.err = DefaultErr("max", MkFloat(120, 0))

\* Go's native integer and floating types
NativeNumberTypes ==
  {"int", "int8", "int16", "int32", "int64",
   "uint", "uint8", "uint16", "uint32", "uint64", "uintptr",
   "float32", "float64"}

\* C27: under a min or max rule with a numeric bound, a value of a native
\* integer or floating type or a decimal string is coerced, so the outcome is
\* the comparison's; every other value gives a coercion error.
C27_EveryNativeNumberCoerces ==
  ( /\ FirstRuleRan({"min", "max"})
    /\ Coercible(field.Validation[1].Value) ) =>
    LET coerces == \/ value.t \in NativeNumberTypes
                   \/ IsString(value) /\ ParseFloatOk(value.s)
    IN (fieldOutcome.err.k \in {"notNumber", "strconv.ParseFloat"}) <=>
         ~coerces

\* the kinds of error that say a rule was broken
RuleFailureKinds ==
  {"custom", "email", "min", "max", "minLength", "maxLength", "pattern"}

\* the values toInt turns into an integer
IntCoercible(v) ==
  \/ v.t \in {"float64", "float32", "int", "int32", "int64"}
  \/ IsString(v) /\ AtoiOk(v.s)

\* the first rule cannot be evaluated on the value: a number is missing, the
\* value is not a string, or the pattern is not a pattern
NotEvaluable(rule, v) ==
  \/ /\ rule.Type \in {"min", "max"}
     /\ ~Coercible(v) \/ ~Coercible(rule.Value)
  \/ /\ rule.Type \in {"minLength", "maxLength"}
     /\ ~IsString(v) \/ ~IntCoercible(rule.Value)
  \/ /\ rule.Type = "email"
     /\ ~IsString(v)
  \/ /\ rule.Type = "pattern"
     /\ \/ ~IsString(v)
        \/ ~IsString(rule.Value)
        \/ rule.Value.s \in MalformedPatterns

\* C28: when the first rule cannot be evaluated, ValidateField returns an
\* error raised at that rule which is neither the rule's custom message nor
\* a default rule-failure message.
C28_NotEvaluableIsDistinct ==
  ( /\ FirstRuleRan({"email", "min", "max", "minLength", "maxLength",
                     "pattern"})
    /\ NotEvaluable(field.Validation[1], value) ) =>
    /\ IsErr(fieldOutcome.err)
    /\ fieldOutcome.ev = <<1>>
    /\ fieldOutcome.err.k \notin RuleFailureKinds
    /\ fieldOutcome.err # CustomErr(field.Validation[1].Message)

\* a string met a pattern rule with a custom message whose pattern does not
\* compile
C28_Witness ==
  /\ FirstRuleRan({"pattern"})
  /\ IsString(value)
  /\ IsString(field.Validation[1].Value)
  /\ field.Validation[1].Value.s \in MalformedPatterns
  /\ fieldOutcome.err = TypeErr("regexp.Compile")

\* the calls of one setter, in order
CallsOf(name) ==
  LET at == {i \in 1..Len(setters) : setters[i][1] = name}
  IN [k \in 1..Cardinality(at) |->
        setters[CHOOSE i \in at :
                  Cardinality({j \in at : j <= i}) = k][2]]

\* C29: the handler Handler() returns serves /admin/login and /admin/logout
\* exactly when the last EnableAuth call enabled auth (never when there was
\* none), and its chain holds every middleware given to AddMiddleware,
\* whatever the order of the configuration calls.
C29_HandlerReflectsFinalConfig ==
  handler.returned =>
    /\ handler.mux.login <=>
         ( /\ Len(CallsOf("EnableAuth")) > 0
           /\ CallsOf("EnableAuth")[Len(CallsOf("EnableAuth"))] )
    /\ \A k \in 1..Len(CallsOf("AddMiddleware")) :
         \E c \in 1..Len(handler.mux.chain) :
           handler.mux.chain[c] = CallsOf("AddMiddleware")[k]

====
